---------------------------- MODULE Spec2Model ----------------------------
(***************************************************************************)
(* Token lifecycle of the Gmail OAuth demonstration servers:               *)
(*   - utils/tokenManager.js: the flat-file credential store               *)
(*   - routes/authRoutes.js: the token-keyed OAuth callback                *)
(*   - the passport session servers: callback, logout, gated routes        *)
(***************************************************************************)
EXTENDS Integers, Sequences, FiniteSets, TLC

(***************************************************************************)
(* Bounds of the model.                                                    *)
(***************************************************************************)
\* local user ids are 1..MaxUsers (the n of `user_<n>`)
MaxUsers == 2
\* the clock (Date.now()) runs over 0..MaxTime
MaxTime == 2
\* the clock of the store specifications runs over 0..MaxClock
MaxClock == 1
\* saveTokens calls explored per behaviour
MaxSaves == 2
\* OAuth callbacks of the token-keyed router handled concurrently
MaxProcs == 2
\* browser sessions of a session server
MaxSessions == 2
\* requests a session server handles at the same time
MaxSlots == 2
\* messages a listing returns at most
MaxMessages == 3
\* characters of a maxResults query parameter at most
MaxQueryLen == 3

UserIds == 1..MaxUsers
Procs == 1..MaxProcs
Sessions == 1..MaxSessions
Slots == 1..MaxSlots
Times == 0..MaxTime

VARIABLES
    file,       \* tokens.json: [kind, text]
    now,        \* Date.now()
    saves,      \* number of saveTokens calls made so far
    ret,        \* outcome of the most recent store call
    lastSaved,  \* history: per id, arguments of the most recent successful save
    expiry,     \* the isTokenExpired call under study: its argument and result
    cb,         \* per callback request of the auth router: its position and locals
    lastWriter, \* history: the callback whose writeFile completed last (0: none)
    server,     \* which server of the repository is running
    sessUser,   \* per session: the user passport keeps in it (req.user)
    resp,       \* the request a session server handled last and its response
    health,     \* the environment of two runs and their /health responses
    listing,    \* the GmailService call under study (listEmails or a send)
    inflight,   \* per request slot of a session server: the request being handled
    gmailConfig,  \* the GmailConfig singleton: isInitialized, oAuth2Client, credentials
    emailService, \* the EmailService singleton: its gmail field
    dreq        \* the request to the token-keyed routers being handled

storeVars == <<file, now, saves, ret, lastSaved>>
\* the state of the parts added to the token lifecycle: health endpoint,
\* listing, requests in flight, the token-keyed mailbox routers
extras == <<health, listing, inflight, gmailConfig, emailService, dreq>>
vars == <<file, now, saves, ret, lastSaved, expiry, cb, lastWriter, server, sessUser, resp,
          health, listing, inflight, gmailConfig, emailService, dreq>>

(***************************************************************************)
(* JavaScript objects are ordered lists of <<key, value>> pairs with       *)
(* unique keys.                                                            *)
(***************************************************************************)
Keys(obj) == {obj[i][1] : i \in 1..Len(obj)}

HasKey(obj, k) == k \in Keys(obj)

\* obj[k]; only used where HasKey(obj, k)
Get(obj, k) == obj[CHOOSE i \in 1..Len(obj) : obj[i][1] = k][2]

\* obj[k] = v : replaces the value in place, or appends a new property
Put(obj, k, v) ==
    IF HasKey(obj, k)
    THEN [i \in 1..Len(obj) |-> IF obj[i][1] = k THEN <<k, v>> ELSE obj[i]]
    ELSE Append(obj, <<k, v>>)

(***************************************************************************)
(* Token sets as the provider hands them out: access_token always,         *)
(* refresh_token and expiry_date optionally.                               *)
(***************************************************************************)
AccessTokens == {"a1", "a2"}
RefreshTokens == {"r1"}
ExpiryDates == 0..MaxTime

OptField(k, vals) == {<<>>} \cup {<< <<k, v>> >> : v \in vals}

TokenSets ==
    { << <<"access_token", a>> >> \o r \o e :
        a \in AccessTokens,
        r \in OptField("refresh_token", RefreshTokens),
        e \in OptField("expiry_date", ExpiryDates) }

\* new Date().toISOString(): the clock reading as a string
toISOString(t) == <<"ISO", t>>

(***************************************************************************)
(* JSON.stringify / JSON.parse of the token file.  The text is a list of   *)
(* members; a string value is written quoted, a number as a numeral, an    *)
(* object as its own member list.                                          *)
(***************************************************************************)
StringFields == {"access_token", "refresh_token", "createdAt"}

stringifyValue(k, v) == IF k \in StringFields THEN <<"quoted", v>> ELSE <<"numeral", v>>

stringifyRecord(rec) ==
    [i \in 1..Len(rec) |-> <<rec[i][1], stringifyValue(rec[i][1], rec[i][2])>>]

JSONstringify(tokenData) ==
    [i \in 1..Len(tokenData) |-> <<tokenData[i][1], stringifyRecord(tokenData[i][2])>>]

parseRecord(text) == [i \in 1..Len(text) |-> <<text[i][1], text[i][2][2]>>]

JSONparse(text) == [i \in 1..Len(text) |-> <<text[i][1], parseRecord(text[i][2])>>]

(***************************************************************************)
(* The file system's view of tokens.json.                                  *)
(*   absent     : ENOENT                                                   *)
(*   unreadable : exists but cannot be opened (EACCES, EISDIR)             *)
(*   corrupt    : readable, content is not JSON                            *)
(*   empty      : readable, no content (not JSON either)                   *)
(*   json       : readable, text is a JSON document                        *)
(***************************************************************************)
AbsentFile == [kind |-> "absent", text |-> <<>>]
UnreadableFile == [kind |-> "unreadable", text |-> <<>>]
CorruptFile == [kind |-> "corrupt", text |-> <<>>]
\* opened for writing and truncated, nothing written yet
TruncatedFile == [kind |-> "empty", text |-> <<>>]
JsonFile(text) == [kind |-> "json", text |-> text]

\* fs.readFile(tokensFile, 'utf8') followed by JSON.parse
readAndParse(f) ==
    IF f.kind = "json"
    THEN [threw |-> FALSE, data |-> JSONparse(f.text)]
    ELSE [threw |-> TRUE, data |-> <<>>]

\* fs.writeFile(tokensFile, text)
writeFile(f, text) ==
    IF f.kind = "unreadable"
    THEN [threw |-> TRUE, file |-> f]
    ELSE [threw |-> FALSE, file |-> JsonFile(text)]


(***************************************************************************)
(* TokenManager (utils/tokenManager.js).                                   *)
(***************************************************************************)
\* a save that never reads the existing document
readExistingNone(f) == <<>>

\* lines 13-22: tokenData after the inner try; every read or parse error
\* is swallowed and leaves the empty object
readExisting(f) ==
    LET r == readAndParse(f)
    IN  IF r.threw THEN <<>> ELSE r.data

\* lines 25-28: { ...tokens, createdAt: new Date().toISOString() }
newRecord(tokens, t) == Put(tokens, "createdAt", toISOString(t))

\* the record as a merge into the stored one: fields of the earlier save survive
mergedRecord(tokenData, userId, tokens, t) ==
    IF HasKey(tokenData, userId)
    THEN LET old == Get(tokenData, userId)
             kept == SelectSeq(old, LAMBDA m : ~HasKey(tokens, m[1]) /\ m[1] # "createdAt")
         IN  kept \o newRecord(tokens, t)
    ELSE newRecord(tokens, t)

\* a document that holds the new record only
updatedTextAlone(tokenData, userId, tokens, t) ==
    JSONstringify(<< <<userId, newRecord(tokens, t)>> >>)

\* lines 25-30: tokenData[userId] = record; JSON.stringify(tokenData)
updatedText(tokenData, userId, tokens, t) ==
    JSONstringify(Put(tokenData, userId, newRecord(tokens, t)))

writeBackMerging(f, tokenData, userId, tokens, t) ==
    LET w == writeFile(f, JSONstringify(Put(tokenData, userId, mergedRecord(tokenData, userId, tokens, t))))
    IN  IF w.threw
        THEN [threw |-> TRUE, file |-> f]
        ELSE [threw |-> FALSE, file |-> w.file]

\* lines 25-35: assign the record, write the whole document back
writeBack(f, tokenData, userId, tokens, t) ==
    LET w == writeFile(f, updatedText(tokenData, userId, tokens, t))
    IN  IF w.threw
        THEN [threw |-> TRUE, file |-> f]
        ELSE [threw |-> FALSE, file |-> w.file]

\* saveTokens(userId, tokens) run without interruption at time t
saveTokens(f, userId, tokens, t) == writeBack(f, readExisting(f), userId, tokens, t)

\* loadTokens without its catch: a failed read propagates
loadTokensNoCatch(f, userId) ==
    LET r == readAndParse(f)
    IN  IF r.threw
        THEN [threw |-> TRUE, found |-> FALSE, record |-> <<>>]
        ELSE IF HasKey(r.data, userId)
             THEN [threw |-> FALSE, found |-> TRUE, record |-> Get(r.data, userId)]
             ELSE [threw |-> FALSE, found |-> FALSE, record |-> <<>>]

\* loadTokens(userId): tokenData[userId] || null, and null on any error
loadTokens(f, userId) ==
    LET r == readAndParse(f)
    IN  IF r.threw
        THEN [threw |-> FALSE, found |-> FALSE, record |-> <<>>]
        ELSE IF HasKey(r.data, userId)
             THEN [threw |-> FALSE, found |-> TRUE, record |-> Get(r.data, userId)]
             ELSE [threw |-> FALSE, found |-> FALSE, record |-> <<>>]

\* an expiry test that forgets the missing-timestamp case
isTokenExpiredNoDefault(tokens, t) ==
    IF ~HasKey(tokens, "expiry_date")
    THEN FALSE
    ELSE t > Get(tokens, "expiry_date")

\* isTokenExpired(tokens) at time t
isTokenExpired(tokens, t) ==
    IF ~HasKey(tokens, "expiry_date") \/ Get(tokens, "expiry_date") = 0
    THEN TRUE
    ELSE t > Get(tokens, "expiry_date")

(***************************************************************************)
(* SpecStore: one caller at a time uses the token manager.                 *)
(***************************************************************************)
NoCall == [op |-> "none", userId |-> 0, threw |-> FALSE, found |-> FALSE, record |-> <<>>]

\* prevKeys: the field names of the save this one replaced
NoSave == [saved |-> FALSE, tokens |-> <<>>, at |-> 0, prevKeys |-> {}]

\* token sets handed to the store: every shape of field set
StoreTokenSets == {tk \in TokenSets : HasKey(tk, "expiry_date") => Get(tk, "expiry_date") = MaxTime}

NoExpiry == [tokens |-> <<>>, checked |-> FALSE, at |-> 0, result |-> FALSE]

IdleCallback == [pc |-> "idle", tokens |-> <<>>, userId |-> 0, doc |-> <<>>,
                 snapshotKeys |-> {}, seen |-> {}, status |-> 0, opened |-> FALSE]

NoUser == [present |-> FALSE, accessToken |-> "", refreshToken |-> ""]

\* a field of a request that was not sent: undefined
Undefined == "<undefined>"

\* the fields of a send request: each not sent, empty or filled in; text is
\* the field the route takes the body text from (message or body)
FieldValues == {Undefined, "", "x"}
SendBodies == [to : FieldValues, subject : FieldValues, text : FieldValues]
NoBody == [to |-> Undefined, subject |-> Undefined, text |-> Undefined]

\* !v for a string or undefined
falsy(v) == v \in {Undefined, ""}

NoResponse == [session |-> 0, route |-> "", input |-> "", kind |-> "none", status |-> 0,
               to |-> "", tokenRead |-> "", remote |-> FALSE, body |-> NoBody,
               shown |-> {}]

\* the session variables while no session server runs
sessionIdle ==
    /\ sessUser = [s \in Sessions |-> NoUser]
    /\ resp = NoResponse

\* the required environment variables as a session server sees them set
SetEnv == [CLIENT_ID |-> "id1", CLIENT_SECRET |-> "secret1", SESSION_SECRET |-> "session1"]

NoHealthResponse == [code |-> 0, body |-> <<>>]

\* two runs of the server, A and B, each with its environment; the answers
\* both gave to the last /health request
NoHealth == [asked |-> FALSE, envA |-> SetEnv, envB |-> SetEnv,
             respA |-> NoHealthResponse, respB |-> NoHealthResponse]

\* calls: history of the remote calls the service issued, each with the
\* operation, the message id it was about (0: none) and whether it returned;
\* reports: the error responses the route sent for the request; query: the
\* maxResults parameter of the request; variant, pageSize: the inbox route
\* that handled it and the maxResults it handed to the list call
NoListing == [pc |-> "idle", messages |-> <<>>, failing |-> {}, emailDetails |-> <<>>,
              returned |-> FALSE, threw |-> FALSE, calls |-> <<>>, reports |-> 0,
              query |-> [given |-> FALSE, text |-> <<>>], variant |-> "", pageSize |-> [nan |-> FALSE, n |-> 0]]

\* gmailConfig after construction (lines 11-14)
\* oAuth2Client: <<>> for null, else the client id and secret it was built
\* with; credentials: those the client holds; last: the most recent call of
\* a GmailConfig method and how it ended
NoConfigCall == [op |-> "", threw |-> FALSE, error |-> "", clientId |-> "", clientSecret |-> ""]

NewGmailConfig == [isInitialized |-> FALSE, oAuth2Client |-> <<>>, credentials |-> <<>>,
                   last |-> NoConfigCall]

\* emailService after construction (lines 5-7): this.gmail = null
NewEmailService == [gmail |-> FALSE]

\* gmailConfig after initializeOAuth2 (lines 16-29)
StartedGmailConfig == [isInitialized |-> TRUE, oAuth2Client |-> <<"id1", "secret1">>,
                       credentials |-> <<>>, last |-> NoConfigCall]

\* a request slot: the session the request came in, the access token of
\* its req.user, the credentials of the GmailService built for it, and the
\* token its remote call went out with
IdleRequest == [pc |-> "idle", session |-> 0, user |-> "", handle |-> "", sent |-> ""]

\* a string as the list of its characters; the empty list also stands for
\* a parameter that was not sent (both are falsy)
NoText == <<>>

\* what a request to the token-keyed routers carries: the router and route,
\* the query's userId (-1: none), tokens and targetEmail, the messageId's
\* length, the body's to, subject, text (body) and from, and a targetEmail
\* given in the body
NoInput == [router |-> "", route |-> "", userId |-> -1, tokensGiven |-> FALSE,
            targetEmail |-> NoText, messageIdLength |-> 0, body |-> NoBody, from |-> NoText,
            bodyTargetEmail |-> NoText]

NoRequest == [pc |-> "idle", in |-> NoInput, userTokens |-> <<>>, status |-> 0,
              remote |-> FALSE, authWith |-> <<>>, sendAs |-> NoText, isExpired |-> FALSE]

\* the added parts while they are not under study
extrasIdle ==
    /\ health = NoHealth
    /\ listing = NoListing
    /\ inflight = [r \in Slots |-> IdleRequest]
    /\ emailService = NewEmailService
    /\ dreq = NoRequest

\* what the store specification leaves alone
storeFrame == <<expiry, cb, lastWriter, server, sessUser, resp, extras>>

InitStore ==
    /\ file \in {AbsentFile, UnreadableFile, CorruptFile}
    /\ now = 0
    /\ saves = 0
    /\ ret = NoCall
    /\ lastSaved = [u \in UserIds |-> NoSave]
    /\ expiry = NoExpiry
    /\ cb = [p \in Procs |-> IdleCallback]
    /\ lastWriter = 0
    /\ server = "none"
    /\ sessionIdle
    /\ extrasIdle
    /\ gmailConfig = NewGmailConfig

Tick ==
    /\ now < MaxClock
    /\ now' = now + 1
    /\ UNCHANGED <<file, saves, ret, lastSaved, storeFrame>>

SaveCall ==
    \E userId \in UserIds, tokens \in StoreTokenSets :
        LET r == saveTokens(file, userId, tokens, now)
        IN  /\ saves < MaxSaves
            /\ saves' = saves + 1
            /\ file' = r.file
            /\ ret' = [op |-> "save", userId |-> userId, threw |-> r.threw,
                       found |-> FALSE, record |-> tokens]
            /\ lastSaved' = IF r.threw THEN lastSaved
                            ELSE [lastSaved EXCEPT ![userId] =
                                     [saved |-> TRUE, tokens |-> tokens, at |-> now,
                                      prevKeys |-> Keys(lastSaved[userId].tokens)]]
            /\ UNCHANGED <<now, storeFrame>>

LoadCall ==
    \E userId \in UserIds :
        LET r == loadTokens(file, userId)
        IN  /\ ret' = [op |-> "load", userId |-> userId, threw |-> r.threw,
                       found |-> r.found, record |-> r.record]
            /\ UNCHANGED <<file, now, saves, lastSaved, storeFrame>>

NextStore == Tick \/ SaveCall \/ LoadCall

SpecStore == InitStore /\ [][NextStore]_vars

(***************************************************************************)
(* Claims on the sequential store.                                         *)
(***************************************************************************)
\* C1: a load returns exactly the fields of the most recent successful save
\* of that id, each with its saved value, plus a createdAt string; nothing
\* of an earlier save survives.
C1_RoundTrip ==
    (ret.op = "load" /\ lastSaved[ret.userId].saved) =>
        LET t == lastSaved[ret.userId].tokens
        IN  /\ ~ret.threw
            /\ ret.found
            /\ Keys(ret.record) = Keys(t) \cup {"createdAt"}
            /\ \A k \in Keys(t) : Get(ret.record, k) = Get(t, k)
            /\ Get(ret.record, "createdAt") = toISOString(lastSaved[ret.userId].at)

\* a load after a save that replaced a record holding a field the new one lacks
C1_Witness ==
    /\ ret.op = "load"
    /\ ret.found
    /\ lastSaved[ret.userId].saved
    /\ lastSaved[ret.userId].prevKeys \ Keys(lastSaved[ret.userId].tokens) # {}

\* C2: a load of an id that was never saved returns not-found and does not
\* raise, whether the file is missing or holds only other ids.
C2_NeverSavedNotFound ==
    (ret.op = "load" /\ ~lastSaved[ret.userId].saved) =>
        (~ret.threw /\ ~ret.found)

\* a load of an unsaved id from a file that holds another id's record
C2_Witness ==
    /\ ret.op = "load"
    /\ ~lastSaved[ret.userId].saved
    /\ file.kind = "json"
    /\ \E u \in UserIds : u # ret.userId /\ lastSaved[u].saved
    /\ ~ret.found

\* the other case of C2: the file does not exist yet
C2_WitnessAbsent ==
    /\ ret.op = "load"
    /\ file = AbsentFile
    /\ ~ret.found

\* C5: a save over a file that is unreadable or not valid JSON fails and
\* leaves the stored content as it was.
C5_SaveFailsOnBadFile ==
    [][(file.kind \in {"corrupt", "unreadable"} /\ saves' = saves + 1)
          => (ret'.threw /\ file' = file)]_storeVars

\* C6: a load from a file that exists but is unreadable or corrupt fails
\* with an error instead of returning not-found.
C6_LoadFailsOnBadFile ==
    (ret.op = "load" /\ file.kind \in {"corrupt", "unreadable"}) => ret.threw

\* C7: a save for one id leaves the stored record of every other id in
\* place and unchanged.
C7_OtherRecordsKept ==
    [][\A u \in UserIds :
          (saves' = saves + 1 /\ ret'.userId # u /\ loadTokens(file, u).found)
              => loadTokens(file', u) = loadTokens(file, u)]_storeVars

\* a record loaded after a later save for another id
C7_Witness ==
    /\ ret.op = "load"
    /\ ret.found
    /\ \E v \in UserIds :
          /\ v # ret.userId
          /\ lastSaved[v].saved
          /\ lastSaved[v].at > lastSaved[ret.userId].at

(***************************************************************************)
(* SpecExpiry: isTokenExpired applied to any token set at any time.        *)
(***************************************************************************)
InitExpiry ==
    /\ file = AbsentFile
    /\ now \in Times
    /\ saves = 0
    /\ ret = NoCall
    /\ lastSaved = [u \in UserIds |-> NoSave]
    /\ expiry \in {[tokens |-> tk, checked |-> FALSE, at |-> 0, result |-> FALSE] : tk \in TokenSets}
    /\ cb = [p \in Procs |-> IdleCallback]
    /\ lastWriter = 0
    /\ server = "none"
    /\ sessionIdle
    /\ extrasIdle
    /\ gmailConfig = NewGmailConfig

ExpiryTick ==
    /\ now < MaxTime
    /\ now' = now + 1
    /\ UNCHANGED <<file, saves, ret, lastSaved, expiry, cb, lastWriter, server, sessUser, resp, extras>>

CheckExpired ==
    /\ expiry' = [expiry EXCEPT !.checked = TRUE, !.at = now,
                                !.result = isTokenExpired(expiry.tokens, now)]
    /\ UNCHANGED <<file, now, saves, ret, lastSaved, cb, lastWriter, server, sessUser, resp, extras>>

NextExpiry == ExpiryTick \/ CheckExpired

SpecExpiry == InitExpiry /\ [][NextExpiry]_vars

HasExpiry == HasKey(expiry.tokens, "expiry_date")
ExpiryAt == Get(expiry.tokens, "expiry_date")

\* C3: isTokenExpired is true when the expiry timestamp is strictly before
\* the current time, false when it is strictly after, and true when the
\* token set has no expiry timestamp.
C3_ExpiredTrichotomy ==
    expiry.checked =>
        /\ (HasExpiry /\ ExpiryAt < expiry.at) => expiry.result = TRUE
        /\ (HasExpiry /\ ExpiryAt > expiry.at) => expiry.result = FALSE
        /\ ~HasExpiry => expiry.result = TRUE

\* a token set without expiry timestamp was tested
C3_Witness == expiry.checked /\ ~HasExpiry /\ expiry.result = TRUE

\* the two timestamp cases of C3
C3_WitnessPast == expiry.checked /\ HasExpiry /\ ExpiryAt > 0 /\ ExpiryAt < expiry.at /\ expiry.result
C3_WitnessFuture == expiry.checked /\ HasExpiry /\ ExpiryAt > expiry.at /\ ~expiry.result

\* C4: isTokenExpired is true when the current time equals the expiry
\* timestamp.
C4_ExpiredAtExpiry ==
    (expiry.checked /\ HasExpiry /\ ExpiryAt = expiry.at) => expiry.result = TRUE

(***************************************************************************)
(* SpecCallback: concurrent GET /callback requests of routes/authRoutes.js.*)
(* A handler runs until its next await; the awaited exchange, file read    *)
(* and file write of different requests interleave.                        *)
(***************************************************************************)
\* gmailConfig.getTokens(code) on success: the provider always dates the
\* access token, the refresh token is optional
ExchangeTokenSets == {tk \in StoreTokenSets : HasKey(tk, "expiry_date")}

callbackFrame == <<saves, ret, lastSaved, expiry, server, sessUser, resp,
                   health, listing, inflight, emailService, dreq>>

InitCallback ==
    /\ file \in {AbsentFile, UnreadableFile}
    /\ now = 0
    /\ saves = 0
    /\ ret = NoCall
    /\ lastSaved = [u \in UserIds |-> NoSave]
    /\ expiry = NoExpiry
    /\ cb = [p \in Procs |-> IdleCallback]
    /\ lastWriter = 0
    /\ server = "router"
    /\ sessionIdle
    /\ extrasIdle
    /\ gmailConfig = StartedGmailConfig

CallbackTick ==
    /\ server = "router"
    /\ now < MaxClock
    /\ now' = now + 1
    /\ UNCHANGED <<file, cb, lastWriter, gmailConfig, callbackFrame>>

\* lines 24-28: the request arrives; without a code it is answered 400
CallbackBegin(p) ==
    /\ server = "router"
    /\ cb[p].pc = "idle"
    /\ \E hasCode \in BOOLEAN :
          cb' = [cb EXCEPT ![p] =
                    IF hasCode
                    THEN [@ EXCEPT !.pc = "exchange"]
                    ELSE [@ EXCEPT !.pc = "done", !.status = 400]]
    /\ UNCHANGED <<file, now, lastWriter, gmailConfig, callbackFrame>>

\* lines 31, 47-50: the exchange is rejected, the catch answers 500
CallbackExchangeFails(p) ==
    /\ server = "router"
    /\ cb[p].pc = "exchange"
    /\ cb' = [cb EXCEPT ![p] = [@ EXCEPT !.pc = "done", !.status = 500]]
    /\ UNCHANGED <<file, now, lastWriter, gmailConfig, callbackFrame>>

\* lines 31-37: tokens arrive (gmailConfig.getTokens keeps them as the
\* credentials of the shared OAuth2 client), the user id is minted from the
\* clock and saveTokens starts reading the file
CallbackExchanged(p) ==
    /\ server = "router"
    /\ cb[p].pc = "exchange"
    /\ gmailConfig.isInitialized
    /\ \E tk \in ExchangeTokenSets :
          /\ cb' = [cb EXCEPT ![p] = [@ EXCEPT !.pc = "read", !.tokens = tk, !.userId = now]]
          /\ gmailConfig' = [gmailConfig EXCEPT !.credentials = tk]
    /\ UNCHANGED <<file, now, lastWriter, callbackFrame>>

\* tokenManager.js 13-30: the read completes; the document to write is built
CallbackSaveRead(p) ==
    /\ server = "router"
    /\ cb[p].pc = "read"
    /\ LET tokenData == readExisting(file)
       IN  cb' = [cb EXCEPT ![p] =
                    [@ EXCEPT !.pc = "open",
                              !.doc = updatedText(tokenData, cb[p].userId, cb[p].tokens, now),
                              !.snapshotKeys = Keys(tokenData),
                              !.seen = {q \in Procs : cb[q].pc = "done" /\ cb[q].status = 200}]]
    /\ UNCHANGED <<file, now, lastWriter, gmailConfig, callbackFrame>>

\* tokenManager.js 30: fs.writeFile opens the file, which truncates it
CallbackSaveOpen(p) ==
    /\ server = "router"
    /\ cb[p].pc = "open"
    /\ IF writeFile(file, cb[p].doc).threw
       THEN /\ cb' = [cb EXCEPT ![p] = [@ EXCEPT !.pc = "done", !.status = 500,
                                                !.tokens = <<>>, !.doc = <<>>]]
            /\ UNCHANGED file
       ELSE /\ cb' = [cb EXCEPT ![p] = [@ EXCEPT !.pc = "write", !.opened = TRUE]]
            /\ file' = TruncatedFile
    /\ UNCHANGED <<now, lastWriter, gmailConfig, callbackFrame>>

\* tokenManager.js 30-32, authRoutes 39-45: the data is written and the
\* request answered.  Written over what another request wrote since this
\* one opened the file, the result is this request's text or a mix of both.
CallbackSaveData(p) ==
    /\ server = "router"
    /\ cb[p].pc = "write"
    /\ \/ file' = writeFile(file, cb[p].doc).file
       \/ file.kind = "json" /\ file' = CorruptFile
    /\ cb' = [cb EXCEPT ![p] = [@ EXCEPT !.pc = "done", !.status = 200,
                                        !.tokens = <<>>, !.doc = <<>>]]
    /\ lastWriter' = p
    /\ UNCHANGED <<now, gmailConfig, callbackFrame>>

NextCallback ==
    \/ CallbackTick
    \/ \E p \in Procs :
          \/ CallbackBegin(p)
          \/ CallbackExchangeFails(p)
          \/ CallbackExchanged(p)
          \/ CallbackSaveRead(p)
          \/ CallbackSaveOpen(p)
          \/ CallbackSaveData(p)

SpecCallback == InitCallback /\ [][NextCallback]_vars

(***************************************************************************)
(* Claims on concurrent callbacks.                                         *)
(***************************************************************************)
Succeeded(p) == cb[p].pc = "done" /\ cb[p].status = 200

\* p never got as far as saveTokens
NeverSaved(p) == cb[p].pc \in {"idle", "exchange"} \/ (cb[p].pc = "done" /\ cb[p].status # 200)

StoredIds == Keys(JSONparse(file.text))

\* C8: the whole file is last-writer-wins.  After the last write the file
\* holds what the last writer read plus its own record; of two successful
\* saves for different ids, the record of the earlier writer is in the file
\* exactly when the last writer read the file after the earlier one had
\* finished, so an overlap loses it although both reported success.
C8_LastWriterWins ==
    \A p \in Procs :
        (lastWriter = p /\ file.kind = "json") =>
            /\ StoredIds = cb[p].snapshotKeys \cup {cb[p].userId}
            /\ \A q \in Procs \ {p} :
                  ( /\ Succeeded(p) /\ Succeeded(q)
                    /\ cb[p].userId # cb[q].userId
                    /\ \A r \in Procs \ {p, q} : NeverSaved(r) )
                  => (cb[q].userId \in StoredIds <=> q \in cb[p].seen)

\* two callbacks for different ids answered 200, one record in the file
C8_Witness ==
    \E p, q \in Procs :
        /\ p # q
        /\ Succeeded(p) /\ Succeeded(q)
        /\ cb[p].userId # cb[q].userId
        /\ file.kind = "json"
        /\ cb[p].userId \in StoredIds
        /\ cb[q].userId \notin StoredIds

(***************************************************************************)
(* SpecSession: the passport session servers.  "enhanced" is the server    *)
(* with label-filtered listing and /api/profile, "basic" the one with the  *)
(* fixed page of 10 and an error-handling middleware, "minimal" the one    *)
(* with the auth routes only.  Each handler runs as one step.              *)
(***************************************************************************)
SessionServers == {"enhanced", "basic", "minimal"}

CallbackRoute == "/auth/google/callback"

MailboxRoutes(srv) ==
    CASE srv = "enhanced" -> {"/api/emails", "/api/emails/:messageId",
                              "/api/conversations/:threadId", "/api/send-email", "/api/profile"}
      [] srv = "basic" -> {"/api/emails", "/api/conversations/:threadId",
                           "/api/send-email", "/profile"}
      [] OTHER -> {}

AllMailboxRoutes == UNION {MailboxRoutes(srv) : srv \in SessionServers}

\* what the provider and the exchange can make of a callback request
CallbackFailures == {"access_denied", "provider_error", "no_code", "exchange_failed",
                     "profile_failed", "no_emails"}
CallbackInputs == {"ok"} \cup CallbackFailures

\* req.isAuthenticated()
isAuthenticated(user) == user.present

\* ensureAuthenticated: next() or redirect('/')
ensureAuthenticated(user) == isAuthenticated(user)

\* the verify callback: the caller built from the profile and the tokens
verifiedUser(accessToken, refreshToken) ==
    [present |-> TRUE, accessToken |-> accessToken, refreshToken |-> refreshToken]

\* an error passed to next(err): the basic server's middleware answers in
\* JSON, the others leave it to the framework's error page
errorResponse(srv) ==
    IF srv = "basic"
    THEN [kind |-> "json", status |-> 500, to |-> ""]
    ELSE [kind |-> "html", status |-> 500, to |-> ""]

\* a callback that signs the caller in although the code exchange failed
authenticateCallbackAnyCode(srv, input) ==
    IF input \in {"ok", "exchange_failed"}
    THEN [login |-> TRUE, kind |-> "redirect", status |-> 302, to |-> "/dashboard"]
    ELSE [login |-> FALSE, kind |-> "redirect", status |-> 302, to |-> "/"]

\* a callback that signs the caller in although the profile has no e-mail
authenticateCallbackLax(srv, input) ==
    IF input \in {"ok", "no_emails"}
    THEN [login |-> TRUE, kind |-> "redirect", status |-> 302, to |-> "/dashboard"]
    ELSE [login |-> FALSE, kind |-> "redirect", status |-> 302, to |-> "/"]

\* passport.authenticate('google', {failureRedirect: '/'}) on the callback
\* route, then the route's own handler.  Only a denied authorization is a
\* failure (redirect to failureRedirect); a request with neither code nor
\* error starts the authorization again; every other problem is an error
\* handed to next(err).
authenticateCallback(srv, input) ==
    CASE input = "ok" ->
            [login |-> TRUE, kind |-> "redirect", status |-> 302, to |-> "/dashboard"]
      [] input = "access_denied" ->
            [login |-> FALSE, kind |-> "redirect", status |-> 302, to |-> "/"]
      [] input = "no_code" ->
            [login |-> FALSE, kind |-> "redirect", status |-> 302, to |-> "provider"]
      [] OTHER ->
            [login |-> FALSE] @@ errorResponse(srv)

\* a logout that leaves the user in the session
logoutKeeps(user) == user

\* req.logout(): the session's user is removed
logout(user) == NoUser

\* a send that takes whatever it is given
requiredFieldsGivenLax(body) == ~falsy(body.to)

\* !to || !subject || !message, negated
requiredFieldsGiven(body) == ~(falsy(body.to) \/ falsy(body.subject) \/ falsy(body.text))

\* a handler that sends the refresh token where the access token belongs
handleMailboxRefreshToken(user, route, fieldsGiven, remoteOk) ==
    IF ~ensureAuthenticated(user)
    THEN [kind |-> "redirect", status |-> 302, to |-> "/", tokenRead |-> "", remote |-> FALSE]
    ELSE IF route = "/api/send-email" /\ ~fieldsGiven
    THEN [kind |-> "json", status |-> 400, to |-> "", tokenRead |-> "", remote |-> FALSE]
    ELSE [kind |-> "json", status |-> IF remoteOk THEN 200 ELSE 500, to |-> "",
          tokenRead |-> user.refreshToken, remote |-> TRUE]

\* a gated mailbox route: the gate, the send route's field check, the
\* GmailService built from req.user.accessToken, one remote call
handleMailbox(user, route, fieldsGiven, remoteOk) ==
    IF ~ensureAuthenticated(user)
    THEN [kind |-> "redirect", status |-> 302, to |-> "/", tokenRead |-> "", remote |-> FALSE]
    ELSE IF ~user.present
    THEN \* req.user is undefined: the handler's catch answers 500
         [kind |-> "json", status |-> 500, to |-> "", tokenRead |-> "", remote |-> FALSE]
    ELSE IF route = "/api/send-email" /\ ~fieldsGiven
    THEN [kind |-> "json", status |-> 400, to |-> "", tokenRead |-> "", remote |-> FALSE]
    ELSE [kind |-> "json", status |-> IF remoteOk THEN 200 ELSE 500, to |-> "",
          tokenRead |-> user.accessToken, remote |-> TRUE]

\* the token values a mailbox route's response carries: the profile routes
\* answer a successful request with user: req.user, the whole object the
\* verify callback built (part_000 lines 759-768, part_006 lines 529-533);
\* every other body is built from the provider's data or a message
responseTokens(user, route, status) ==
    IF route \in {"/api/profile", "/profile"} /\ status = 200
    THEN {user.accessToken, user.refreshToken}
    ELSE {}

sessionFrame == <<file, now, saves, ret, lastSaved, expiry, cb, lastWriter,
                  listing, inflight, gmailConfig, emailService, dreq>>

InitSession ==
    /\ file = AbsentFile
    /\ now = 0
    /\ saves = 0
    /\ ret = NoCall
    /\ lastSaved = [u \in UserIds |-> NoSave]
    /\ expiry = NoExpiry
    /\ cb = [p \in Procs |-> IdleCallback]
    /\ lastWriter = 0
    /\ server \in SessionServers
    /\ sessionIdle
    /\ extrasIdle
    /\ gmailConfig = NewGmailConfig

\* GET /auth/google/callback, the provider and the exchange behaving in
\* one of the given ways
SessionCallbackWith(s, inputs) ==
    /\ server \in SessionServers
    /\ resp = NoResponse
    /\ \E input \in inputs :
          LET o == authenticateCallback(server, input)
          IN  /\ IF o.login
                 THEN \E a \in AccessTokens, r \in RefreshTokens :
                         sessUser' = [sessUser EXCEPT ![s] = verifiedUser(a, r)]
                 ELSE UNCHANGED sessUser
              /\ resp' = [session |-> s, route |-> CallbackRoute, input |-> input,
                          kind |-> o.kind, status |-> o.status, to |-> o.to,
                          tokenRead |-> "", remote |-> FALSE, body |-> NoBody,
                          shown |-> {}]
    /\ UNCHANGED <<health, server, sessionFrame>>

\* GET /auth/google/callback
SessionCallback(s) == SessionCallbackWith(s, CallbackInputs)

\* GET /logout
SessionLogout(s) ==
    /\ server \in SessionServers
    /\ resp = NoResponse
    /\ sessUser' = [sessUser EXCEPT ![s] = logout(@)]
    /\ resp' = [session |-> s, route |-> "/logout", input |-> "", kind |-> "redirect",
                status |-> 302, to |-> "/", tokenRead |-> "", remote |-> FALSE,
                body |-> NoBody, shown |-> {}]
    /\ UNCHANGED <<health, server, sessionFrame>>

\* a request to one of the gated mailbox routes
SessionMailbox(s) ==
    /\ server \in SessionServers
    /\ resp = NoResponse
    /\ \E route \in MailboxRoutes(server), remoteOk \in BOOLEAN :
          \E body \in IF route = "/api/send-email" THEN SendBodies ELSE {NoBody} :
             LET o == handleMailbox(sessUser[s], route, requiredFieldsGiven(body), remoteOk)
             IN  resp' = [session |-> s, route |-> route, input |-> "", body |-> body,
                          shown |-> responseTokens(sessUser[s], route, o.status)] @@ o
    /\ UNCHANGED <<sessUser, health, server, sessionFrame>>

\* the pages every session server has besides the callback and the logout
PageRoutes == {"/", "/auth/google", "/dashboard"}

\* app.get('/'), app.get('/auth/google'), app.get('/dashboard'): the home
\* page sends a signed-in caller on to the dashboard, the dashboard sends
\* an anonymous caller back to the home page
viewPage(user, route) ==
    CASE route = "/" ->
            IF isAuthenticated(user)
            THEN [kind |-> "redirect", status |-> 302, to |-> "/dashboard"]
            ELSE [kind |-> "html", status |-> 200, to |-> ""]
      [] route = "/auth/google" ->
            [kind |-> "redirect", status |-> 302, to |-> "provider"]
      [] OTHER ->
            IF ensureAuthenticated(user)
            THEN [kind |-> "html", status |-> 200, to |-> ""]
            ELSE [kind |-> "redirect", status |-> 302, to |-> "/"]

\* a request to one of the pages
SessionPage(s) ==
    /\ server \in SessionServers
    /\ resp = NoResponse
    /\ \E route \in PageRoutes :
          LET o == viewPage(sessUser[s], route)
          IN  resp' = [NoResponse EXCEPT !.session = s, !.route = route, !.kind = o.kind,
                                        !.status = o.status, !.to = o.to]
    /\ UNCHANGED <<sessUser, health, server, sessionFrame>>

\* the response has been sent; the server takes the next request
SessionAnswered ==
    /\ server \in SessionServers
    /\ resp # NoResponse
    /\ resp' = NoResponse
    /\ health' = [health EXCEPT !.asked = FALSE, !.respA = NoHealthResponse,
                                !.respB = NoHealthResponse]
    /\ UNCHANGED <<sessUser, server, sessionFrame>>

NextSession ==
    \/ \E s \in Sessions :
          \/ SessionCallback(s)
          \/ SessionLogout(s)
          \/ SessionMailbox(s)
          \/ SessionPage(s)
    \/ SessionAnswered

SpecSession == InitSession /\ [][NextSession]_vars

(***************************************************************************)
(* SpecOAuth: any of the servers that take an OAuth callback.              *)
(***************************************************************************)
SpecOAuth == (InitSession \/ InitCallback) /\ [][NextSession \/ NextCallback]_vars

(***************************************************************************)
(* SpecHealth: GET /health of a session server, asked of two runs that     *)
(* were started with environments of the same shape and are in the same    *)
(* sessions.                                                               *)
(***************************************************************************)
\* a variable of process.env: not set, set to nothing, or set to a value
EnvValues == {Undefined, "", "v1", "v2"}
Envs == [CLIENT_ID : EnvValues, CLIENT_SECRET : EnvValues, SESSION_SECRET : EnvValues]

\* which of the variables are set to something
presence(env) == [k \in DOMAIN env |-> ~falsy(env[k])]

\* validateEnvironment (enhanced, minimal): the process exits unless all
\* three are set; the basic server does not check, but its GoogleStrategy
\* cannot be constructed without client id and secret
startsWith(srv, env) ==
    IF srv \in {"enhanced", "minimal"}
    THEN \A k \in DOMAIN env : ~falsy(env[k])
    ELSE ~falsy(env.CLIENT_ID) /\ ~falsy(env.CLIENT_SECRET)

\* a health report that shows the client id
healthShowsId(srv, env, t, authenticated) ==
    [code |-> 200,
     body |-> << <<"status", "OK">>, <<"timestamp", toISOString(t)>>,
                 <<"client_id", env.CLIENT_ID>> >>]

\* app.get('/health'): enhanced and minimal report which variables are
\* set, basic reports whether the session is signed in; on the basic
\* server the session middleware fails every request when it has no secret
healthReport(srv, env, t, authenticated) ==
    IF srv = "basic"
    THEN IF falsy(env.SESSION_SECRET)
         THEN [code |-> 500,
               body |-> << <<"success", FALSE>>, <<"error", "Internal server error">> >>]
         ELSE [code |-> 200,
               body |-> << <<"status", "OK">>, <<"timestamp", toISOString(t)>>,
                           <<"authenticated", authenticated>> >>]
    ELSE [code |-> 200,
          body |-> << <<"status", "OK">>, <<"timestamp", toISOString(t)>>,
                      <<"environment",
                        << <<"client_id_set", ~falsy(env.CLIENT_ID)>>,
                           <<"client_secret_set", ~falsy(env.CLIENT_SECRET)>>,
                           <<"session_secret_set", ~falsy(env.SESSION_SECRET)>> >> >> >>]

withoutTimestamp(body) == SelectSeq(body, LAMBDA m : m[1] # "timestamp")

InitHealth ==
    /\ file = AbsentFile
    /\ now = 0
    /\ saves = 0
    /\ ret = NoCall
    /\ lastSaved = [u \in UserIds |-> NoSave]
    /\ expiry = NoExpiry
    /\ cb = [p \in Procs |-> IdleCallback]
    /\ lastWriter = 0
    /\ server \in SessionServers
    /\ sessionIdle
    /\ listing = NoListing
    /\ inflight = [r \in Slots |-> IdleRequest]
    /\ emailService = NewEmailService
    /\ dreq = NoRequest
    /\ gmailConfig = NewGmailConfig
    /\ \E a, b \in Envs :
          /\ startsWith(server, a) /\ startsWith(server, b)
          /\ presence(a) = presence(b)
          /\ health = [NoHealth EXCEPT !.envA = a, !.envB = b]

\* GET /health in session s, answered by run A now and by run B at any time
HealthRequest(s) ==
    /\ server \in SessionServers
    /\ resp = NoResponse
    /\ \E tB \in Times :
          health' = [health EXCEPT
                        !.asked = TRUE,
                        !.respA = healthReport(server, health.envA, now,
                                               isAuthenticated(sessUser[s])),
                        !.respB = healthReport(server, health.envB, tB,
                                               isAuthenticated(sessUser[s]))]
    /\ resp' = [NoResponse EXCEPT !.session = s, !.route = "/health", !.kind = "json",
                                  !.status = health'.respA.code]
    /\ UNCHANGED <<sessUser, server, sessionFrame>>

NextHealth ==
    \/ \E s \in Sessions :
          HealthRequest(s) \/ SessionCallbackWith(s, {"ok"}) \/ SessionLogout(s)
    \/ SessionAnswered

SpecHealth == InitHealth /\ [][NextHealth]_vars

\* C18: two runs whose environments differ in the values of the required
\* variables but not in which of them are set answer /health alike, apart
\* from the timestamp.
C18_HealthHidesValues ==
    health.asked =>
        /\ health.respA.code = health.respB.code
        /\ withoutTimestamp(health.respA.body) = withoutTimestamp(health.respB.body)

\* /health was answered by two runs that share no value of any variable,
\* at different times, in a signed-in session
C18_Witness ==
    /\ health.asked
    /\ \A k \in DOMAIN health.envA : health.envA[k] # health.envB[k]
    /\ health.respA.body # health.respB.body
    /\ resp.route = "/health"
    /\ isAuthenticated(sessUser[resp.session])

(***************************************************************************)
(* SpecLifecycle: every route of a session server.                         *)
(***************************************************************************)
NextLifecycle == NextSession \/ \E s \in Sessions : HealthRequest(s)

SpecLifecycle == InitSession /\ [][NextLifecycle]_vars

\* the step handles a successful callback of session s
IsLogin(s) == resp'.session = s /\ resp'.route = CallbackRoute /\ resp'.input = "ok"

\* the step handles a logout of session s
IsLogout(s) == resp'.session = s /\ resp'.route = "/logout"

\* C19: every session starts anonymous; its authentication state changes
\* only by a successful callback (to authenticated) and by a logout (to
\* anonymous), so the home page, the dashboard, /health and the mailbox
\* routes leave it as it is whether they succeed or fail; a logout in an
\* anonymous session leaves it anonymous and redirects to the start page.
C19_SessionStateMachine ==
    /\ \A s \in Sessions : ~isAuthenticated(sessUser[s])
    /\ [][\A s \in Sessions :
             /\ (~isAuthenticated(sessUser[s]) /\ isAuthenticated(sessUser'[s])) => IsLogin(s)
             /\ (isAuthenticated(sessUser[s]) /\ ~isAuthenticated(sessUser'[s])) => IsLogout(s)
             /\ (IsLogout(s) /\ resp' # resp) =>
                   /\ ~isAuthenticated(sessUser'[s])
                   /\ ~isAuthenticated(sessUser[s]) => sessUser'[s] = sessUser[s]
                   /\ resp'.kind = "redirect" /\ resp'.to = "/"
          ]_vars

\* a signed-in session stayed signed in over a mailbox request that failed
\* at the provider
C19_Witness ==
    /\ resp.route \in AllMailboxRoutes
    /\ resp.remote /\ resp.status = 500
    /\ isAuthenticated(sessUser[resp.session])

\* the other cases of C19: a logout in a session that was never signed in
\* (the other one is), and pages and /health asked for in both states
C19_WitnessLogout ==
    /\ resp.route = "/logout" /\ resp.to = "/"
    /\ ~isAuthenticated(sessUser[resp.session])
    /\ \E s \in Sessions : isAuthenticated(sessUser[s])

C19_WitnessPages ==
    /\ resp.route \in {"/", "/health"}
    /\ resp.status \in {200, 302}
    /\ resp.route = "/" => resp.to = "/dashboard"
    /\ isAuthenticated(sessUser[resp.session])
    /\ \E s \in Sessions : ~isAuthenticated(sessUser[s])

\* C27: no response of a session server carries the value of an access
\* token or of a refresh token.
C27_NoTokenInResponse == resp.shown = {}

(***************************************************************************)
(* SpecInflight: requests to the mailbox routes of a session server that   *)
(* overlap.  A handler runs up to its awaited remote call; other requests, *)
(* callbacks and logouts run before the call goes out and before it        *)
(* returns.                                                                *)
(***************************************************************************)
\* one client object for the whole server: new credentials replace the
\* credentials every request sends
newGmailServiceShared(requests, r, accessToken) ==
    [q \in Slots |-> [requests[q] EXCEPT !.handle = accessToken]]

\* new GmailService(accessToken): an OAuth2 client of its own, holding
\* the given access token
newGmailService(requests, r, accessToken) ==
    [requests EXCEPT ![r].handle = accessToken]

inflightFrame == <<file, now, saves, ret, lastSaved, expiry, cb, lastWriter, server, sessUser,
                   resp, health, listing, gmailConfig, emailService, dreq>>

InitInflight ==
    /\ file = AbsentFile
    /\ now = 0
    /\ saves = 0
    /\ ret = NoCall
    /\ lastSaved = [u \in UserIds |-> NoSave]
    /\ expiry = NoExpiry
    /\ cb = [p \in Procs |-> IdleCallback]
    /\ lastWriter = 0
    /\ server \in {"enhanced", "basic"}
    /\ sessionIdle
    /\ extrasIdle
    /\ gmailConfig = NewGmailConfig

\* a request of session s to a mailbox route passes the gate and the send
\* route's field check, builds its GmailService from req.user.accessToken
\* and starts the remote call
RequestArrives(r, s) ==
    /\ server \in SessionServers
    /\ inflight[r].pc = "idle"
    /\ ensureAuthenticated(sessUser[s])
    /\ \E route \in MailboxRoutes(server) :
          \E body \in IF route = "/api/send-email" THEN SendBodies ELSE {NoBody} :
             route = "/api/send-email" => requiredFieldsGiven(body)
    /\ inflight' = newGmailService(
                       [inflight EXCEPT ![r] = [IdleRequest EXCEPT
                                                   !.pc = "built", !.session = s,
                                                   !.user = sessUser[s].accessToken]],
                       r, sessUser[s].accessToken)
    /\ UNCHANGED inflightFrame

\* the remote call goes out with the credentials of the request's client
RemoteCallIssued(r) ==
    /\ inflight[r].pc = "built"
    /\ inflight' = [inflight EXCEPT ![r].pc = "called", ![r].sent = inflight[r].handle]
    /\ UNCHANGED inflightFrame

\* the remote call returns or fails, the request is answered (200 or 500)
RemoteCallReturns(r) ==
    /\ inflight[r].pc = "called"
    /\ inflight' = [inflight EXCEPT ![r] = IdleRequest]
    /\ UNCHANGED inflightFrame

NextInflight ==
    \/ \E r \in Slots :
          \/ \E s \in Sessions : RequestArrives(r, s)
          \/ RemoteCallIssued(r)
          \/ RemoteCallReturns(r)
    \/ \E s \in Sessions : SessionCallbackWith(s, {"ok"}) \/ SessionLogout(s)
    \/ SessionAnswered

SpecInflight == InitInflight /\ [][NextInflight]_vars

\* C16: whatever requests, callbacks and logouts run in between, the
\* remote call of a request goes out with the access token of the user its
\* own session held when the request came in.
C16_OwnToken ==
    \A r \in Slots :
        /\ inflight[r].pc # "idle" => inflight[r].handle = inflight[r].user
        /\ inflight[r].pc = "called" => inflight[r].sent = inflight[r].user

\* two requests of different sessions with different tokens are in flight,
\* the one built first sent its call after the other was built
C16_Witness ==
    \E r, q \in Slots :
        /\ inflight[r].pc = "called" /\ inflight[q].pc = "built"
        /\ inflight[r].session # inflight[q].session
        /\ inflight[r].sent # inflight[q].handle
        /\ inflight[r].sent = sessUser[inflight[r].session].accessToken
        /\ inflight[q].handle = sessUser[inflight[q].session].accessToken

(***************************************************************************)
(* SpecListing: GmailService.listEmails of the enhanced server, called by  *)
(* GET /api/emails.  The list call and each detail fetch are awaited in    *)
(* turn; each may be rejected.                                             *)
(***************************************************************************)
MessageIds == 1..MaxMessages

\* response.data.messages: up to MaxMessages entries {id, threadId}, no id twice
RECURSIVE Listings(_)
Listings(n) ==
    IF n = 0
    THEN {<<>>}
    ELSE Listings(n - 1) \cup
         {Append(l, [id |-> m, threadId |-> "t1"]) :
             l \in {x \in Listings(n - 1) : Len(x) = n - 1},
             m \in MessageIds}

DistinctListings == {l \in Listings(MaxMessages) :
                        \A i, j \in 1..Len(l) : i # j => l[i].id # l[j].id}

\* a header value of the fetched message: NoText when the header is absent
Subjects == {NoText, <<"s">>}
Senders == {NoText, <<"N", " ", "<", "a", "@", "b", ">">>}
ErrorMessages == {"e1", "e2"}

\* from.replace(/<[^>]*>/g, ''): every "<" up to its next ">" is dropped
RECURSIVE removeAngles(_)
removeAngles(t) ==
    IF t = <<>>
    THEN <<>>
    ELSE IF t[1] = "<" /\ \E j \in 2..Len(t) : t[j] = ">"
    THEN LET j == CHOOSE x \in 2..Len(t) : t[x] = ">" /\ \A y \in 2..(x - 1) : t[y] # ">"
         IN  removeAngles(SubSeq(t, j + 1, Len(t)))
    ELSE <<t[1]>> \o removeAngles(Tail(t))

\* String.prototype.trim for blanks
RECURSIVE trim(_)
trim(t) ==
    IF t # <<>> /\ t[1] = " " THEN trim(Tail(t))
    ELSE IF t # <<>> /\ t[Len(t)] = " " THEN trim(SubSeq(t, 1, Len(t) - 1))
    ELSE t

\* lines 141-163: the summary pushed for a fetched message
summary(message, subject, from) ==
    << <<"id", message.id>>, <<"threadId", message.threadId>>,
       <<"subject", IF subject = NoText THEN <<"No Subject">> ELSE subject>>,
       <<"from", trim(removeAngles(IF from = NoText THEN <<"Unknown Sender">> ELSE from))>> >>

\* an entry that forgets which message failed
placeholderNoId(message, error) == << <<"error", error>> >>

\* lines 164-169: the entry pushed when the fetch of a message throws
placeholder(message, error) == << <<"id", message.id>>, <<"error", error>> >>

listingFrame == <<file, now, saves, ret, lastSaved, expiry, cb, lastWriter, server, sessUser,
                  resp, health, inflight, gmailConfig, emailService, dreq>>

InitListing ==
    /\ file = AbsentFile
    /\ now = 0
    /\ saves = 0
    /\ ret = NoCall
    /\ lastSaved = [u \in UserIds |-> NoSave]
    /\ expiry = NoExpiry
    /\ cb = [p \in Procs |-> IdleCallback]
    /\ lastWriter = 0
    /\ server = "enhanced"
    /\ sessionIdle
    /\ extrasIdle
    /\ gmailConfig = NewGmailConfig

\* a remote call as the history keeps it
call(op, id, ok) == [op |-> op, id |-> id, ok |-> ok]

\* a loop that leaves a failed message in place, so that the next round
\* fetches it again (once)
afterFetchErrorRetry(l, i, error) ==
    IF Cardinality({k \in 1..Len(l.calls) :
                       l.calls[k].id = l.messages[i].id /\ ~l.calls[k].ok}) > 1
    THEN [l EXCEPT !.emailDetails = Append(@, placeholder(l.messages[i], error)),
                   !.failing = @ \cup {i}]
    ELSE [l EXCEPT !.failing = @ \cup {i}]

\* lines 164-169: the catch inside the loop pushes the placeholder and the
\* loop goes on with the next message
afterFetchError(l, i, error) ==
    [l EXCEPT !.emailDetails = Append(@, placeholder(l.messages[i], error)),
              !.failing = @ \cup {i}]

\* lines 121-128 (part_006 95-101): the list call returns (messages may be
\* missing from the response, which counts as none)
ListReturns ==
    /\ listing.pc = "idle"
    /\ \E l \in DistinctListings :
          listing' = [listing EXCEPT !.pc = "fetching", !.messages = l,
                                     !.calls = Append(@, call("list", 0, TRUE))]
    /\ UNCHANGED listingFrame

\* lines 121-125, 172-175 (part_006 95-98, 126-128): the list call is
\* rejected; listEmails throws and the route answers 500 (lines 698-701)
ListThrows ==
    /\ listing.pc = "idle"
    /\ listing' = [listing EXCEPT !.pc = "done", !.threw = TRUE,
                                  !.calls = Append(@, call("list", 0, FALSE)),
                                  !.reports = @ + 1]
    /\ UNCHANGED listingFrame

\* lines 132-163: the detail fetch of the next message returns
FetchReturns ==
    /\ server = "enhanced"
    /\ listing.pc = "fetching"
    /\ Len(listing.emailDetails) < Len(listing.messages)
    /\ LET message == listing.messages[Len(listing.emailDetails) + 1]
       IN  \E subject \in Subjects, from \in Senders :
              listing' = [listing EXCEPT
                             !.emailDetails = Append(@, summary(message, subject, from)),
                             !.calls = Append(@, call("get", message.id, TRUE))]
    /\ UNCHANGED listingFrame

\* lines 132-138, 164-169: the detail fetch of the next message throws
FetchThrows ==
    /\ server = "enhanced"
    /\ listing.pc = "fetching"
    /\ Len(listing.emailDetails) < Len(listing.messages)
    /\ LET i == Len(listing.emailDetails) + 1
       IN  \E error \in ErrorMessages :
              listing' = afterFetchError(
                             [listing EXCEPT
                                 !.calls = Append(@, call("get", listing.messages[i].id, FALSE))],
                             i, error)
    /\ UNCHANGED listingFrame

\* line 171: the loop is over, the details are returned
ListEmailsReturns ==
    /\ listing.pc = "fetching"
    /\ Len(listing.emailDetails) = Len(listing.messages)
    /\ listing' = [listing EXCEPT !.pc = "done", !.returned = TRUE]
    /\ UNCHANGED listingFrame

NextListing == ListReturns \/ ListThrows \/ FetchReturns \/ FetchThrows \/ ListEmailsReturns

SpecListing == InitListing /\ [][NextListing]_vars

\* C12: once the list call has returned N messages, listEmails returns
\* exactly N entries in the order of the listing whatever fetches threw: a
\* position whose fetch threw holds a placeholder with that message's id
\* and an error message, every other position a full summary of its message.
C12_ListingSurvivesFetchErrors ==
    (listing.pc = "done" /\ ~listing.threw) =>
        /\ listing.returned
        /\ Len(listing.emailDetails) = Len(listing.messages)
        /\ \A i \in 1..Len(listing.messages) :
              LET entry == listing.emailDetails[i]
              IN  /\ HasKey(entry, "id")
                  /\ Get(entry, "id") = listing.messages[i].id
                  /\ i \in listing.failing =>
                        (Keys(entry) = {"id", "error"} /\ Get(entry, "error") \in ErrorMessages)
                  /\ i \notin listing.failing =>
                        ( /\ Keys(entry) = {"id", "threadId", "subject", "from"}
                          /\ Get(entry, "threadId") = listing.messages[i].threadId )

\* three messages listed, the fetch of the second threw, all three returned
C12_Witness ==
    /\ listing.pc = "done"
    /\ listing.returned
    /\ Len(listing.messages) = 3
    /\ listing.failing = {2}
    /\ HasKey(listing.emailDetails[2], "error")
    /\ HasKey(listing.emailDetails[3], "subject")

(***************************************************************************)
(* SpecBasicListing: GmailService.listEmails of the basic server, called   *)
(* by its GET /api/emails with a fixed page of 10 and no label filter.     *)
(* Its loop has no try/catch of its own.                                   *)
(***************************************************************************)
\* part_006 lines 111-122: the summary pushed for a fetched message (the
\* sender is kept as the header gives it)
summaryBasic(message, subject, from) ==
    << <<"id", message.id>>, <<"threadId", message.threadId>>,
       <<"subject", IF subject = NoText THEN <<"No Subject">> ELSE subject>>,
       <<"from", IF from = NoText THEN <<"Unknown Sender">> ELSE from>> >>

InitBasicListing ==
    /\ file = AbsentFile
    /\ now = 0
    /\ saves = 0
    /\ ret = NoCall
    /\ lastSaved = [u \in UserIds |-> NoSave]
    /\ expiry = NoExpiry
    /\ cb = [p \in Procs |-> IdleCallback]
    /\ lastWriter = 0
    /\ server = "basic"
    /\ sessionIdle
    /\ extrasIdle
    /\ gmailConfig = NewGmailConfig

\* part_006 lines 103-122: the detail fetch of the next message returns
FetchReturnsBasic ==
    /\ server = "basic"
    /\ listing.pc = "fetching"
    /\ Len(listing.emailDetails) < Len(listing.messages)
    /\ LET message == listing.messages[Len(listing.emailDetails) + 1]
       IN  \E subject \in Subjects, from \in Senders :
              listing' = [listing EXCEPT
                             !.emailDetails = Append(@, summaryBasic(message, subject, from)),
                             !.calls = Append(@, call("get", message.id, TRUE))]
    /\ UNCHANGED listingFrame

\* part_006 lines 104-109, 126-128, 482-485: the detail fetch of the next
\* message throws; the only catch is the one around the whole method, which
\* rethrows, and the route answers 500
FetchThrowsBasic ==
    /\ server = "basic"
    /\ listing.pc = "fetching"
    /\ Len(listing.emailDetails) < Len(listing.messages)
    /\ LET i == Len(listing.emailDetails) + 1
       IN  listing' = [listing EXCEPT
                          !.pc = "done", !.threw = TRUE, !.failing = @ \cup {i},
                          !.calls = Append(@, call("get", listing.messages[i].id, FALSE)),
                          !.reports = @ + 1]
    /\ UNCHANGED listingFrame

NextBasicListing ==
    ListReturns \/ ListThrows \/ FetchReturnsBasic \/ FetchThrowsBasic \/ ListEmailsReturns

SpecBasicListing == InitBasicListing /\ [][NextBasicListing]_vars

\* the list call of this listEmails returned
Listed == \E k \in 1..Len(listing.calls) : listing.calls[k].op = "list" /\ listing.calls[k].ok

\* C22: in the basic server, once the list call has returned N messages,
\* listEmails returns N entries whatever detail fetches threw, the failed
\* ones reported inline.
C22_BasicListingSurvives ==
    (server = "basic" /\ listing.pc = "done" /\ Listed) =>
        /\ listing.returned
        /\ Len(listing.emailDetails) = Len(listing.messages)
        /\ \A i \in listing.failing : HasKey(listing.emailDetails[i], "error")

(***************************************************************************)
(* SpecRemote: the remote calls one request causes, in either session      *)
(* server's listEmails and in the sends (GmailService.sendEmail,            *)
(* EmailService.sendEmailAsDelegate), each call returning or being          *)
(* rejected.                                                               *)
(***************************************************************************)
SendOps == {"sendEmail", "sendEmailAsDelegate"}

InitRemote ==
    /\ file = AbsentFile
    /\ now = 0
    /\ saves = 0
    /\ ret = NoCall
    /\ lastSaved = [u \in UserIds |-> NoSave]
    /\ expiry = NoExpiry
    /\ cb = [p \in Procs |-> IdleCallback]
    /\ lastWriter = 0
    /\ server \in {"enhanced", "basic"}
    /\ sessionIdle
    /\ extrasIdle
    /\ gmailConfig = NewGmailConfig

\* part_000 lines 281-288 (part_005 lines 63-68): the one send call returns
SendReturns(op) ==
    /\ listing.pc = "idle"
    /\ listing' = [listing EXCEPT !.pc = "done", !.returned = TRUE,
                                  !.calls = Append(@, call(op, 0, TRUE))]
    /\ UNCHANGED listingFrame

\* part_000 lines 289-291, 748-751 (part_005 lines 69-72, part_003 lines
\* 126-132): the send call is rejected; the method rethrows and the route
\* answers 500
SendThrows(op) ==
    /\ listing.pc = "idle"
    /\ listing' = [listing EXCEPT !.pc = "done", !.threw = TRUE,
                                  !.calls = Append(@, call(op, 0, FALSE)),
                                  !.reports = @ + 1]
    /\ UNCHANGED listingFrame

NextRemote ==
    \/ NextListing
    \/ FetchReturnsBasic
    \/ FetchThrowsBasic
    \/ \E op \in SendOps : SendReturns(op)
    \/ \E op \in SendOps : SendThrows(op)

SpecRemote == InitRemote /\ [][NextRemote]_vars

FailedCalls == {k \in 1..Len(listing.calls) : ~listing.calls[k].ok}
InlineErrors == {j \in 1..Len(listing.emailDetails) : HasKey(listing.emailDetails[j], "error")}

C21_WitnessSend ==
    /\ listing.pc = "done"
    /\ listing.threw
    /\ listing.calls = <<call("sendEmailAsDelegate", 0, FALSE)>>
    /\ listing.reports = 1

(***************************************************************************)
(* SpecPaging: the page size the inbox routes derive from the maxResults   *)
(* query parameter.  The parameter is absent or a short text; parseInt is  *)
(* computed as JavaScript computes it, with NaN as a value of its own.     *)
(***************************************************************************)
QueryChars == {"0", "1", "2", "-", "a", " "}

DigitValue(c) == IF c = "0" THEN 0 ELSE IF c = "1" THEN 1 ELSE 2

IsDigit(c) == c \in {"0", "1", "2"}

\* the texts of up to n characters
RECURSIVE QueryTexts(_)
QueryTexts(n) ==
    IF n = 0
    THEN {<<>>}
    ELSE QueryTexts(n - 1) \cup
         {Append(t, c) : t \in {x \in QueryTexts(n - 1) : Len(x) = n - 1}, c \in QueryChars}

\* req.query.maxResults: absent (undefined), or a text (possibly empty)
NoQuery == [given |-> FALSE, text |-> <<>>]
QueryValues == {NoQuery} \cup {[given |-> TRUE, text |-> t] : t \in QueryTexts(MaxQueryLen)}

NaN == [nan |-> TRUE, n |-> 0]
Number(n) == [nan |-> FALSE, n |-> n]

\* the value of the longest prefix of digits of t, read after acc
RECURSIVE digitsValue(_, _)
digitsValue(t, acc) ==
    IF t = <<>> \/ ~IsDigit(t[1])
    THEN acc
    ELSE digitsValue(Tail(t), 10 * acc + DigitValue(t[1]))

RECURSIVE skipBlanks(_)
skipBlanks(t) == IF t # <<>> /\ t[1] = " " THEN skipBlanks(Tail(t)) ELSE t

\* parseInt(v): undefined reads as the text "undefined"; leading blanks are
\* skipped, a sign is taken, then the digits up to the first other
\* character; no digit at all gives NaN
parseInt(v) ==
    IF ~v.given
    THEN NaN
    ELSE LET t == skipBlanks(v.text)
             negative == t # <<>> /\ t[1] = "-"
             d == IF negative THEN Tail(t) ELSE t
         IN  IF d = <<>> \/ ~IsDigit(d[1])
             THEN NaN
             ELSE Number(IF negative THEN 0 - digitsValue(d, 0) ELSE digitsValue(d, 0))

\* part_000 line 692: parseInt(req.query.maxResults) || 20 (NaN and 0 are
\* falsy)
pageSizeEnhanced(v) ==
    LET p == parseInt(v)
    IN  IF p.nan \/ p.n = 0 THEN Number(20) ELSE p

\* part_003 lines 66-70 and 272-275: const { maxResults = 10 } = req.query,
\* then parseInt(maxResults); the default stands in for undefined only.
\* The services' own default (maxResults = 10) applies to undefined only,
\* and parseInt never returns undefined.
pageSizeRouter(v) == IF ~v.given THEN Number(10) ELSE parseInt(v)

InitPaging ==
    /\ file = AbsentFile
    /\ now = 0
    /\ saves = 0
    /\ ret = NoCall
    /\ lastSaved = [u \in UserIds |-> NoSave]
    /\ expiry = NoExpiry
    /\ cb = [p \in Procs |-> IdleCallback]
    /\ lastWriter = 0
    /\ server \in {"enhanced", "router"}
    /\ sessionIdle
    /\ health = NoHealth
    /\ \E q \in QueryValues : listing = [NoListing EXCEPT !.query = q]
    /\ inflight = [r \in Slots |-> IdleRequest]
    /\ emailService = NewEmailService
    /\ dreq = NoRequest
    /\ gmailConfig = NewGmailConfig

\* part_000 lines 690-694: GET /api/emails of the enhanced server
EnhancedInbox ==
    /\ server = "enhanced"
    /\ listing.variant = ""
    /\ listing' = [listing EXCEPT !.variant = "enhanced",
                                  !.pageSize = pageSizeEnhanced(listing.query)]
    /\ UNCHANGED listingFrame

\* part_003 lines 64-74: GET /inbox of the delegated router
DelegatedInbox ==
    /\ server = "router"
    /\ listing.variant = ""
    /\ listing' = [listing EXCEPT !.variant = "delegated",
                                  !.pageSize = pageSizeRouter(listing.query)]
    /\ UNCHANGED listingFrame

\* part_003 lines 270-277: GET /inbox of emailRoutes
EmailRoutesInbox ==
    /\ server = "router"
    /\ listing.variant = ""
    /\ listing' = [listing EXCEPT !.variant = "emailRoutes",
                                  !.pageSize = pageSizeRouter(listing.query)]
    /\ UNCHANGED listingFrame

NextPaging == EnhancedInbox \/ DelegatedInbox \/ EmailRoutesInbox

SpecPaging == InitPaging /\ [][NextPaging]_vars

IsPositiveInteger(p) == ~p.nan /\ p.n > 0

\* C23: whatever maxResults the query carries, the page size an inbox route
\* hands on is a positive integer: the parsed value when that is a positive
\* integer, otherwise the default of the variant (20 enhanced, 10 routers).
C23_PageSizePositive ==
    listing.variant # "" =>
        /\ IsPositiveInteger(listing.pageSize)
        /\ listing.pageSize =
              IF IsPositiveInteger(parseInt(listing.query))
              THEN parseInt(listing.query)
              ELSE Number(IF listing.variant = "enhanced" THEN 20 ELSE 10)

(***************************************************************************)
(* The token-keyed mailbox routers of the "router" server:                 *)
(* routes/delegatedEmailRoutes.js and routes/emailRoutes.js over           *)
(* services/emailService.js and config/gmailConfig.js.                     *)
(***************************************************************************)
DelegatedRoutes == {"/inbox", "/send", "/emails/:messageId", "/threads", "/delegation-status"}
EmailRoutes == {"/send", "/inbox", "/emails/:messageId", "/threads", "/threads/:threadId"}

\* /^[^\s@]+@[^\s@]+\.[^\s@]+$/ .test(t): one "@" with text before it, and
\* after it a "." with text on both sides; no blank and no other "@"
emailRegexTest(t) ==
    \E i, j \in 1..Len(t) :
        /\ t[i] = "@" /\ t[j] = "."
        /\ i > 1 /\ j > i + 1 /\ j < Len(t)
        /\ \A k \in 1..Len(t) : k # i => t[k] \notin {" ", "@"}

\* from.match(/<(.+)>/)?.[1] || from : the text between the first "<" that
\* has a ">" at least two places on and the last ">"
extractFromEmail(from) ==
    LET opens == {i \in 1..Len(from) :
                     from[i] = "<" /\ \E j \in (i + 2)..Len(from) : from[j] = ">"}
    IN  IF opens = {}
        THEN from
        ELSE LET i == CHOOSE x \in opens : \A y \in opens : x <= y
                 j == CHOOSE x \in (i + 2)..Len(from) :
                         from[x] = ">" /\ \A y \in (x + 1)..Len(from) : from[y] # ">"
             IN  SubSeq(from, i + 1, j - 1)

\* the outcome of a handler: the response's status, whether a remote call
\* was issued and with which credentials and mailbox, and emailService.gmail
outcome(status, svc) ==
    [status |-> status, remote |-> FALSE, authWith |-> <<>>, sendAs |-> NoText, gmail |-> svc.gmail]

\* a call through the client of emailService: authorised by whatever
\* credentials the shared OAuth2 client holds when the call is made
remoteCall(cfg, mailbox, remoteOk) ==
    [status |-> IF remoteOk THEN 200 ELSE 500, remote |-> TRUE,
     authWith |-> cfg.credentials, sendAs |-> mailbox, gmail |-> TRUE]

\* getDelegatedEmails, getDelegatedEmail, getDelegatedThreads: throw
\* unless this.gmail is set
delegatedRead(cfg, svc, targetEmail, remoteOk) ==
    IF ~svc.gmail THEN outcome(500, svc) ELSE remoteCall(cfg, targetEmail, remoteOk)

\* sendEmailAsDelegate: ensureGmailClient builds the client from the
\* shared configuration if there is none yet
sendEmailAsDelegate(cfg, svc, from, remoteOk) ==
    IF ~svc.gmail /\ ~cfg.isInitialized
    THEN outcome(500, svc)
    ELSE remoteCall(cfg, extractFromEmail(from), remoteOk)

\* line 37, const { targetEmail } = req.query || req.body: req.query is an
\* object, and an object is truthy also when it is empty, so the value is
\* always the one of the query
requestTargetEmail(queryTargetEmail, bodyTargetEmail) == queryTargetEmail

\* validateEmailAccess: targetEmail is given and has the shape of an address
validateEmailAccess(targetEmail) == targetEmail # NoText /\ emailRegexTest(targetEmail)

\* a delegated send that takes any sender
fromMatchesAny(from, targetEmail) == TRUE

\* from !== req.targetEmail, negated
fromMatches(from, targetEmail) == from = targetEmail

\* the route handlers of delegatedEmailRoutes after loadUserTokens found
\* tokens for the user
delegatedRoute(cfg, svc, in, remoteOk) ==
    IF in.route = "/delegation-status"
    THEN outcome(IF in.targetEmail = NoText THEN 400 ELSE 200, svc)
    ELSE IF ~validateEmailAccess(requestTargetEmail(in.targetEmail, in.bodyTargetEmail))
    THEN outcome(400, svc)
    ELSE CASE in.route = "/send" ->
                 IF ~requiredFieldsGiven(in.body) \/ in.from = NoText
                 THEN outcome(400, svc)
                 ELSE IF ~fromMatches(in.from, in.targetEmail)
                 THEN outcome(400, svc)
                 ELSE sendEmailAsDelegate(cfg, svc, in.from, remoteOk)
           [] in.route = "/emails/:messageId" ->
                 IF in.messageIdLength < 5
                 THEN outcome(400, svc)
                 ELSE delegatedRead(cfg, svc, in.targetEmail, remoteOk)
           [] OTHER -> delegatedRead(cfg, svc, in.targetEmail, remoteOk)

\* a gate that asks for the userId only
requireAuthLax(in) == in.userId # -1

\* requireAuth of emailRoutes: userId and tokens in the query
requireAuth(in) == in.userId # -1 /\ in.tokensGiven

\* a request to emailRoutes: the gate, the send route's field check, then a
\* method emailService does not have (sendEmail, getEmails, getEmail), so
\* the handler's catch answers 500
emailRoute(svc, in) ==
    IF ~requireAuth(in)
    THEN outcome(401, svc)
    ELSE IF in.route = "/send" /\ ~requiredFieldsGiven(in.body)
    THEN outcome(400, svc)
    ELSE outcome(500, svc)

\* the userId of a query: none, or an id a callback may have minted
QueryUserIds == {-1} \cup (0..MaxClock)

routerFrame == <<file, now, saves, ret, lastSaved, expiry, cb, lastWriter, server, sessUser,
                 resp, health, listing, inflight>>

\* a request to emailRoutes; no handler waits for anything before it answers
EmailRoutesRequest(inputs) ==
    /\ server = "router"
    /\ dreq.pc = "idle"
    /\ \E in \in inputs :
          LET o == emailRoute(emailService, in)
          IN  /\ in.router = "email"
              /\ dreq' = [NoRequest EXCEPT !.pc = "done", !.in = in, !.status = o.status,
                                           !.remote = o.remote, !.authWith = o.authWith,
                                           !.sendAs = o.sendAs]
    /\ UNCHANGED <<gmailConfig, emailService, routerFrame>>

\* loadUserTokens, lines 10-18: without a userId the request is answered
\* 400, otherwise loadTokens starts reading the file
DelegatedBegin(inputs) ==
    /\ server = "router"
    /\ dreq.pc = "idle"
    /\ \E in \in inputs :
          /\ in.router = "delegated"
          /\ dreq' = [NoRequest EXCEPT !.in = in,
                                       !.pc = IF in.userId = -1 THEN "done" ELSE "loading",
                                       !.status = IF in.userId = -1 THEN 400 ELSE 0]
    /\ UNCHANGED <<gmailConfig, emailService, routerFrame>>

\* loadUserTokens, lines 18-28, and the route: the file has been read; an
\* unknown user is answered 404, otherwise the route's handler runs up to
\* its remote call and the request is answered when that returns
DelegatedLoaded ==
    /\ server = "router"
    /\ dreq.pc = "loading"
    /\ dreq.in.router = "delegated"
    /\ LET r == loadTokens(file, dreq.in.userId)
       IN  IF ~r.found
           THEN /\ dreq' = [dreq EXCEPT !.pc = "done", !.status = 404]
                /\ UNCHANGED emailService
           ELSE \E remoteOk \in BOOLEAN :
                   LET o == delegatedRoute(gmailConfig, emailService, dreq.in, remoteOk)
                   IN  /\ dreq' = [dreq EXCEPT !.pc = "done", !.userTokens = r.record,
                                               !.status = o.status, !.remote = o.remote,
                                               !.authWith = o.authWith, !.sendAs = o.sendAs]
                       /\ emailService' = [emailService EXCEPT !.gmail = o.gmail]
    /\ UNCHANGED <<gmailConfig, routerFrame>>

\* authRoutes GET /status, lines 56-60: without a userId the request is
\* answered 400, otherwise loadTokens starts reading the file
StatusBegin ==
    /\ server = "router"
    /\ dreq.pc = "idle"
    /\ \E u \in QueryUserIds :
          dreq' = [NoRequest EXCEPT !.in = [NoInput EXCEPT !.router = "auth", !.route = "/status",
                                                          !.userId = u],
                                   !.pc = IF u = -1 THEN "done" ELSE "loading",
                                   !.status = IF u = -1 THEN 400 ELSE 0]
    /\ UNCHANGED <<gmailConfig, emailService, routerFrame>>

\* a status that reports every readable store as holding the user
tokenStatusLenient(f, userId, t) ==
    LET r == loadTokens(f, userId)
    IN  IF ~r.found /\ f.kind # "json"
        THEN [status |-> 404, userTokens |-> <<>>, isExpired |-> FALSE]
        ELSE [status |-> 200, userTokens |-> r.record, isExpired |-> TRUE]

\* authRoutes GET /status, lines 62-75: what the route answers once
\* loadTokens has returned
tokenStatus(f, userId, t) ==
    LET r == loadTokens(f, userId)
    IN  IF ~r.found
        THEN [status |-> 404, userTokens |-> <<>>, isExpired |-> FALSE]
        ELSE [status |-> 200, userTokens |-> r.record,
              isExpired |-> isTokenExpired(r.record, t)]

\* authRoutes GET /status, lines 62-75: an unknown user is answered 404,
\* a known one with isTokenExpired of the stored record
StatusLoaded ==
    /\ server = "router"
    /\ dreq.pc = "loading"
    /\ dreq.in.router = "auth"
    /\ LET a == tokenStatus(file, dreq.in.userId, now)
       IN  dreq' = [dreq EXCEPT !.pc = "done", !.status = a.status,
                                !.userTokens = a.userTokens, !.isExpired = a.isExpired]
    /\ UNCHANGED <<gmailConfig, emailService, routerFrame>>

\* the response has been sent; the request and its locals are gone
RouterAnswered ==
    /\ server = "router"
    /\ dreq.pc = "done"
    /\ dreq' = NoRequest
    /\ UNCHANGED <<gmailConfig, emailService, routerFrame>>

(***************************************************************************)
(* SpecRouters: requests of every shape to the token-keyed mailbox         *)
(* routers, one at a time, over a token file that earlier callbacks left.  *)
(***************************************************************************)
\* targetEmail as sent: nothing, "no", "a@b", "a @b.c", "a@b.c", "d@e.f", "<a@b.c>"
TargetEmails ==
    { NoText, <<"n", "o">>, <<"a", "@", "b">>, <<"a", " ", "@", "b", ".", "c">>,
      <<"a", "@", "b", ".", "c">>, <<"d", "@", "e", ".", "f">>,
      <<"<", "a", "@", "b", ".", "c", ">">> }

\* from as sent: nothing, "a@b.c", "d@e.f", "N <a@b.c>", "<a@b.c>"
Froms ==
    { NoText, <<"a", "@", "b", ".", "c">>, <<"d", "@", "e", ".", "f">>,
      <<"N", " ", "<", "a", "@", "b", ".", "c", ">">>,
      <<"<", "a", "@", "b", ".", "c", ">">> }

\* targetEmail in the JSON body of a send: none, or "a@b.c"
BodyTargetEmails == {NoText, <<"a", "@", "b", ".", "c">>}

DelegatedInputs ==
    UNION { IF route = "/send"
            THEN {[NoInput EXCEPT !.router = "delegated", !.route = route, !.userId = u,
                                  !.targetEmail = t, !.body = b, !.from = f,
                                  !.bodyTargetEmail = bt] :
                     u \in QueryUserIds, t \in TargetEmails, b \in SendBodies, f \in Froms,
                     bt \in BodyTargetEmails}
            ELSE IF route = "/emails/:messageId"
            THEN {[NoInput EXCEPT !.router = "delegated", !.route = route, !.userId = u,
                                  !.targetEmail = t, !.messageIdLength = n] :
                     u \in QueryUserIds, t \in TargetEmails, n \in {4, 5}}
            ELSE {[NoInput EXCEPT !.router = "delegated", !.route = route, !.userId = u,
                                  !.targetEmail = t] :
                     u \in QueryUserIds, t \in TargetEmails}
          : route \in DelegatedRoutes }

EmailInputs ==
    UNION { {[NoInput EXCEPT !.router = "email", !.route = route, !.userId = u,
                             !.tokensGiven = g, !.body = b] :
                u \in QueryUserIds, g \in BOOLEAN,
                b \in IF route = "/send" THEN SendBodies ELSE {NoBody}}
          : route \in EmailRoutes }

\* the token files callbacks at time 0 leave behind
CallbackFiles ==
    {AbsentFile} \cup {saveTokens(AbsentFile, 0, tk, 0).file : tk \in ExchangeTokenSets}

\* the shared configuration before start-up, after it, and after an exchange
GmailConfigs ==
    {NewGmailConfig} \cup
    {[StartedGmailConfig EXCEPT !.credentials = c] : c \in {<<>>} \cup ExchangeTokenSets}

InitRouters ==
    /\ file \in CallbackFiles
    /\ now = 0
    /\ saves = 0
    /\ ret = NoCall
    /\ lastSaved = [u \in UserIds |-> NoSave]
    /\ expiry = NoExpiry
    /\ cb = [p \in Procs |-> IdleCallback]
    /\ lastWriter = 0
    /\ server = "router"
    /\ sessionIdle
    /\ extrasIdle
    /\ gmailConfig \in GmailConfigs

NextRouters ==
    \/ EmailRoutesRequest(EmailInputs)
    \/ DelegatedBegin(DelegatedInputs)
    \/ DelegatedLoaded
    \/ RouterAnswered

SpecRouters == InitRouters /\ [][NextRouters]_vars

\* the request a router has just answered
Answered == dreq.pc = "done"

(***************************************************************************)
(* SpecDelegated: the delegated flow.  OAuth callbacks, one after the      *)
(* other, store users' tokens while well-formed delegated requests for the *)
(* mailbox a@b.c are handled; a request and a callback overlap at their    *)
(* awaits.                                                                 *)
(***************************************************************************)
WellFormedInputs ==
    {in \in DelegatedInputs :
        /\ in.route \in {"/inbox", "/send"}
        /\ in.userId # -1
        /\ in.targetEmail = <<"a", "@", "b", ".", "c">>
        /\ in.bodyTargetEmail = NoText
        /\ in.route = "/send" =>
              (in.from = in.targetEmail /\ in.body = [to |-> "x", subject |-> "x", text |-> "x"])}

\* callbacks that arrive one after the other
CallbacksInTurn ==
    \/ CallbackTick
    \/ \E p \in Procs :
          \/ (\A q \in Procs \ {p} : cb[q].pc \in {"idle", "done"}) /\ CallbackBegin(p)
          \/ CallbackExchangeFails(p)
          \/ CallbackExchanged(p)
          \/ CallbackSaveRead(p)
          \/ CallbackSaveOpen(p)
          \/ CallbackSaveData(p)

NextDelegated ==
    \/ CallbacksInTurn
    \/ DelegatedBegin(WellFormedInputs)
    \/ DelegatedLoaded
    \/ StatusBegin
    \/ StatusLoaded
    \/ RouterAnswered

SpecDelegated == InitCallback /\ [][NextDelegated]_vars

\* C17: every remote call made for a delegated request with userId u is
\* authorised with the token set stored for u.
C17_AuthorisedAsStoredUser ==
    (Answered /\ dreq.in.router = "delegated" /\ dreq.remote) =>
        /\ HasKey(dreq.authWith, "access_token")
        /\ Get(dreq.authWith, "access_token") = Get(dreq.userTokens, "access_token")

(***************************************************************************)
(* SpecTokens: where tokens are obtained, held and used: every route of a  *)
(* session server, or the callbacks and the status route of authRoutes.    *)
(***************************************************************************)
NextStatus == CallbacksInTurn \/ StatusBegin \/ StatusLoaded \/ RouterAnswered

SpecTokens == (InitSession \/ InitCallback) /\ [][NextLifecycle \/ NextStatus]_vars

\* C20: the user a session holds, and with it the access token, changes
\* only by a successful callback or a logout of that session; every remote
\* call of a mailbox request carries the access token the session holds,
\* also when the call fails, and the request leaves the session as it is;
\* the shared credentials change only when a callback exchanges a code,
\* and the token file only when a callback saves: the status route reports
\* expiry and writes nothing.
C20_TokenFixedUntilLogout ==
    [][ /\ \A s \in Sessions :
              sessUser'[s] # sessUser[s] => (IsLogin(s) \/ IsLogout(s))
        /\ (resp' # resp /\ resp'.remote) =>
              /\ resp'.tokenRead = sessUser[resp'.session].accessToken
              /\ sessUser' = sessUser
        /\ gmailConfig' # gmailConfig =>
              \E p \in Procs : cb[p].pc = "exchange" /\ cb'[p].pc = "read"
        /\ file' # file =>
              \E p \in Procs : cb[p].pc \in {"open", "write"} /\ cb'[p].pc # cb[p].pc
        /\ dreq' # dreq => (file' = file /\ gmailConfig' = gmailConfig)
      ]_vars

\* a mailbox request of a signed-in session failed at the provider with
\* the session's token while the other session holds another token
C20_Witness ==
    /\ resp.route \in AllMailboxRoutes
    /\ resp.remote /\ resp.status = 500
    /\ resp.tokenRead = sessUser[resp.session].accessToken
    /\ \E s \in Sessions :
          isAuthenticated(sessUser[s]) /\ sessUser[s].accessToken # resp.tokenRead

\* the status route answered for a stored user after a later exchange
C20_WitnessStatus ==
    /\ Answered /\ dreq.in.route = "/status" /\ dreq.status = 200
    /\ gmailConfig.credentials # <<>>
    /\ Get(gmailConfig.credentials, "access_token") # Get(dreq.userTokens, "access_token")

(***************************************************************************)
(* SpecStatus: GET /status of the auth router while callbacks exchange     *)
(* codes and save tokens.                                                  *)
(***************************************************************************)
SpecStatus == InitCallback /\ [][NextStatus]_vars

\* the token file holds a record for userId
Stored(userId) == file.kind = "json" /\ HasKey(JSONparse(file.text), userId)

C24_WitnessNotFound ==
    /\ dreq.pc = "done"
    /\ dreq.in.router = "auth"
    /\ dreq.status = 404
    /\ file.kind = "json"

(***************************************************************************)
(* SpecRace: the token store under callbacks that overlap freely while     *)
(* GET /status loads from it.                                              *)
(***************************************************************************)
NextRace == NextCallback \/ StatusBegin \/ StatusLoaded \/ RouterAnswered

SpecRace == InitCallback /\ [][NextRace]_vars

\* p has been given its user id (lines 33-34) and has not failed since
Minted(p) == cb[p].pc \in {"read", "open", "write"} \/ Succeeded(p)

\* p is inside saveTokens
Saving(p) == cb[p].pc \in {"read", "open", "write"}

\* C25: no two callbacks are given the same user id, whether one follows
\* the other or they overlap (so none writes under the key of another).
C25_FreshUserIds ==
    \A p, q \in Procs :
        (p # q /\ Minted(p) /\ Minted(q)) => cb[p].userId # cb[q].userId

\* C26: a load of an id that a finished callback saved and no callback is
\* saving finds the record although another id is being saved; and when a
\* save completes, the ids saved by finished callbacks are all in the file.
C26_OthersUndisturbed ==
    [][ /\ ( /\ dreq.pc = "loading" /\ dreq'.pc = "done" /\ dreq.in.router = "auth"
             /\ \E p \in Procs : Succeeded(p) /\ cb[p].userId = dreq.in.userId
             /\ \A q \in Procs : Saving(q) => cb[q].userId # dreq.in.userId )
           => dreq'.status = 200
        /\ \A p \in Procs :
              (cb[p].pc = "write" /\ cb'[p].pc = "done" /\ file'.kind = "json") =>
                  \A q \in Procs \ {p} :
                      ( /\ Succeeded(q)
                        /\ \A r \in Procs : Saving(r) => cb[r].userId # cb[q].userId )
                      => cb[q].userId \in Keys(JSONparse(file'.text))
      ]_vars

(***************************************************************************)
(* SpecConfig: the GmailConfig singleton and its methods, called in any    *)
(* order with any arguments.                                               *)
(***************************************************************************)
ClientIds == {Undefined, "id1", "id2"}
ClientSecrets == {Undefined, "secret1"}

NotInitialized == "OAuth2 client not initialized. Call initializeOAuth2() first."
CredentialsRequired == "GOOGLE_CLIENT_ID and GOOGLE_CLIENT_SECRET are required"
ExchangeRejected == "invalid_grant"

\* the configuration after a call of op that ended as given
called(cfg, op, threw, error) ==
    [cfg EXCEPT !.last = [NoConfigCall EXCEPT !.op = op, !.threw = threw, !.error = error]]

\* an initialisation that builds the client before it looks at its arguments
initializeOAuth2Eager(cfg, clientId, clientSecret) ==
    LET c == [cfg EXCEPT !.oAuth2Client = <<clientId, clientSecret>>, !.credentials = <<>>,
                         !.last = [NoConfigCall EXCEPT !.op = "initializeOAuth2",
                                                       !.clientId = clientId,
                                                       !.clientSecret = clientSecret]]
    IN  IF falsy(clientId) \/ falsy(clientSecret)
        THEN [c EXCEPT !.last.threw = TRUE, !.last.error = CredentialsRequired]
        ELSE [c EXCEPT !.isInitialized = TRUE]

\* lines 16-29: initializeOAuth2(clientId, clientSecret, redirectUri); the
\* client it builds holds no credentials yet
initializeOAuth2(cfg, clientId, clientSecret) ==
    LET c == [cfg EXCEPT !.last = [NoConfigCall EXCEPT !.op = "initializeOAuth2",
                                                       !.clientId = clientId,
                                                       !.clientSecret = clientSecret]]
    IN  IF falsy(clientId) \/ falsy(clientSecret)
        THEN [c EXCEPT !.last.threw = TRUE, !.last.error = CredentialsRequired]
        ELSE [c EXCEPT !.oAuth2Client = <<clientId, clientSecret>>, !.isInitialized = TRUE,
                       !.credentials = <<>>]

\* lines 60-64
ensureInitialized(cfg) == cfg.isInitialized

\* lines 31-36
getGmailClient(cfg) ==
    IF ~cfg.isInitialized
    THEN called(cfg, "getGmailClient", TRUE, NotInitialized)
    ELSE called(cfg, "getGmailClient", FALSE, "")

\* lines 38-45
generateAuthUrl(cfg) ==
    IF ~ensureInitialized(cfg)
    THEN called(cfg, "generateAuthUrl", TRUE, NotInitialized)
    ELSE called(cfg, "generateAuthUrl", FALSE, "")

\* lines 47-53: the exchange either rejects (tokens = <<>>) or returns
\* tokens, which the client keeps
getTokens(cfg, tokens) ==
    IF ~ensureInitialized(cfg)
    THEN called(cfg, "getTokens", TRUE, NotInitialized)
    ELSE IF tokens = <<>>
    THEN called(cfg, "getTokens", TRUE, ExchangeRejected)
    ELSE called([cfg EXCEPT !.credentials = tokens], "getTokens", FALSE, "")

\* lines 55-58
setCredentials(cfg, tokens) ==
    IF ~ensureInitialized(cfg)
    THEN called(cfg, "setCredentials", TRUE, NotInitialized)
    ELSE called([cfg EXCEPT !.credentials = tokens], "setCredentials", FALSE, "")

configFrame == <<file, now, saves, ret, lastSaved, expiry, cb, lastWriter, server, sessUser,
                 resp, health, listing, inflight, emailService, dreq>>

InitConfig ==
    /\ file = AbsentFile
    /\ now = 0
    /\ saves = 0
    /\ ret = NoCall
    /\ lastSaved = [u \in UserIds |-> NoSave]
    /\ expiry = NoExpiry
    /\ cb = [p \in Procs |-> IdleCallback]
    /\ lastWriter = 0
    /\ server = "router"
    /\ sessionIdle
    /\ extrasIdle
    /\ gmailConfig = NewGmailConfig

InitializeOAuth2 ==
    /\ \E clientId \in ClientIds, clientSecret \in ClientSecrets :
          gmailConfig' = initializeOAuth2(gmailConfig, clientId, clientSecret)
    /\ UNCHANGED configFrame

GetGmailClient ==
    /\ gmailConfig' = getGmailClient(gmailConfig)
    /\ UNCHANGED configFrame

\* authRoutes GET /url (part_002 lines 8-19)
GenerateAuthUrl ==
    /\ gmailConfig' = generateAuthUrl(gmailConfig)
    /\ UNCHANGED configFrame

GetTokens ==
    /\ \E tokens \in {<<>>} \cup ExchangeTokenSets :
          gmailConfig' = getTokens(gmailConfig, tokens)
    /\ UNCHANGED configFrame

SetCredentials ==
    /\ \E tokens \in StoreTokenSets :
          gmailConfig' = setCredentials(gmailConfig, tokens)
    /\ UNCHANGED configFrame

NextConfig == InitializeOAuth2 \/ GetGmailClient \/ GenerateAuthUrl \/ GetTokens \/ SetCredentials

SpecConfig == InitConfig /\ [][NextConfig]_vars

\* the fields of the singleton
configFields(cfg) == <<cfg.isInitialized, cfg.oAuth2Client, cfg.credentials>>

\* C30: isInitialized holds exactly when oAuth2Client is set; a call of
\* generateAuthUrl, getTokens, setCredentials or getGmailClient on a
\* configuration that is not initialised throws the 'not initialized' error
\* and changes no field; initializeOAuth2 without a client id or without a
\* secret throws and changes no field.
C30_ConfigGuarded ==
    /\ [](gmailConfig.isInitialized <=> gmailConfig.oAuth2Client # <<>>)
    /\ [][ gmailConfig' # gmailConfig =>
              LET last == gmailConfig'.last
              IN  /\ (~gmailConfig.isInitialized /\ last.op # "initializeOAuth2") =>
                        /\ last.op \in {"generateAuthUrl", "getTokens", "setCredentials",
                                        "getGmailClient"}
                        /\ last.threw
                        /\ last.error = NotInitialized
                        /\ configFields(gmailConfig') = configFields(gmailConfig)
                  /\ ( /\ last.op = "initializeOAuth2"
                       /\ (falsy(last.clientId) \/ falsy(last.clientSecret)) ) =>
                        /\ last.threw
                        /\ configFields(gmailConfig') = configFields(gmailConfig)
          ]_vars

\* getTokens was refused on the configuration as constructed
C30_Witness ==
    /\ ~gmailConfig.isInitialized
    /\ gmailConfig.oAuth2Client = <<>>
    /\ gmailConfig.last.op = "getTokens"
    /\ gmailConfig.last.threw
    /\ gmailConfig.last.error = NotInitialized

\* an initialisation without secret was refused on a configuration that
\* was initialised and holds credentials, which it kept
C30_WitnessReinitialise ==
    /\ gmailConfig.isInitialized
    /\ gmailConfig.credentials # <<>>
    /\ gmailConfig.last.op = "initializeOAuth2"
    /\ gmailConfig.last.threw
    /\ falsy(gmailConfig.last.clientSecret)

(***************************************************************************)
(* SpecMailbox: any server that answers mailbox requests.                  *)
(***************************************************************************)
SpecMailbox == (InitSession \/ InitRouters) /\ [][NextSession \/ NextRouters]_vars

\* C11: on every send route, a request that passed the route's gate and
\* lacks to, subject or the body text (not sent, or empty) is answered 400
\* and no remote send call is made.
C11_SendValidation ==
    /\ ( /\ resp.route = "/api/send-email"
          /\ isAuthenticated(sessUser[resp.session])
          /\ (falsy(resp.body.to) \/ falsy(resp.body.subject) \/ falsy(resp.body.text)) )
          => (resp.status = 400 /\ ~resp.remote)
    /\ ( /\ Answered
          /\ dreq.in.route = "/send"
          /\ \/ dreq.in.router = "email" /\ requireAuth(dreq.in)
             \/ dreq.in.router = "delegated" /\ loadTokens(file, dreq.in.userId).found
          /\ (falsy(dreq.in.body.to) \/ falsy(dreq.in.body.subject) \/ falsy(dreq.in.body.text)) )
          => (dreq.status = 400 /\ ~dreq.remote)

\* a signed-in session sent a message with an empty subject
C11_Witness ==
    /\ resp.route = "/api/send-email"
    /\ isAuthenticated(sessUser[resp.session])
    /\ resp.body.to = "x" /\ resp.body.subject = "" /\ resp.body.text = "x"
    /\ resp.status = 400

\* the same on the routers: emailRoutes without body text, and a delegated
\* send without to from a user with stored tokens
C11_WitnessEmailRoutes ==
    /\ Answered /\ dreq.in.router = "email" /\ dreq.in.route = "/send"
    /\ requireAuth(dreq.in)
    /\ dreq.in.body.to = "x" /\ dreq.in.body.subject = "x" /\ dreq.in.body.text = Undefined
    /\ dreq.status = 400

C11_WitnessDelegated ==
    /\ Answered /\ dreq.in.router = "delegated" /\ dreq.in.route = "/send"
    /\ dreq.userTokens # <<>>
    /\ validateEmailAccess(dreq.in.targetEmail)
    /\ dreq.in.body.to = "" /\ dreq.in.body.subject = "x" /\ dreq.in.body.text = "x"
    /\ dreq.status = 400

\* the delegated request answered last came from a user with stored tokens
FromStoredUser == Answered /\ dreq.in.router = "delegated" /\ dreq.userTokens # <<>>

\* C13: on every delegated route, a request from a user with stored tokens
\* whose targetEmail does not have the shape local-part@domain is answered
\* 400 and no remote call is made.
C13_TargetEmailValidated ==
    (FromStoredUser /\ ~emailRegexTest(dreq.in.targetEmail))
        => (dreq.status = 400 /\ ~dreq.remote)

\* C14: a delegated send whose from differs from the validated targetEmail
\* is answered 400 and no remote send call is made.
C14_FromMustMatch ==
    ( /\ FromStoredUser
      /\ dreq.in.route = "/send"
      /\ validateEmailAccess(dreq.in.targetEmail)
      /\ dreq.in.from # dreq.in.targetEmail )
        => (dreq.status = 400 /\ ~dreq.remote)

\* a complete delegated send as "N <a@b.c>" for the mailbox a@b.c, while
\* the shared client could have made the call
C14_Witness ==
    /\ FromStoredUser
    /\ dreq.in.route = "/send"
    /\ dreq.in.targetEmail = <<"a", "@", "b", ".", "c">>
    /\ dreq.in.from = <<"N", " ", "<", "a", "@", "b", ".", "c", ">">>
    /\ requiredFieldsGiven(dreq.in.body)
    /\ gmailConfig.isInitialized
    /\ dreq.status = 400

\* C28: a delegated send that reached the provider was sent as the mailbox
\* named by the targetEmail that passed validation on that request,
\* whichever form the from field had.
C28_SendsAsTargetEmail ==
    (dreq.pc = "done" /\ dreq.in.router = "delegated" /\ dreq.in.route = "/send"
        /\ dreq.remote)
        => dreq.sendAs = dreq.in.targetEmail

\* C29: a delegated send of a stored user that names a well-formed
\* targetEmail in its body only, with all fields given and from equal to
\* that targetEmail, passes validation (it is not answered 400).
C29_TargetEmailFromBody ==
    ( /\ dreq.pc = "done" /\ dreq.in.router = "delegated" /\ dreq.in.route = "/send"
      /\ dreq.userTokens # <<>>
      /\ dreq.in.targetEmail = NoText
      /\ validateEmailAccess(dreq.in.bodyTargetEmail)
      /\ requiredFieldsGiven(dreq.in.body)
      /\ dreq.in.from = dreq.in.bodyTargetEmail )
        => dreq.status # 400

\* the request the session server answered last was to a mailbox route in
\* a session that is not authenticated
AnonymousMailboxRequest ==
    resp.route \in AllMailboxRoutes /\ ~isAuthenticated(sessUser[resp.session])

\* the request a router answered last did not say who asks: emailRoutes
\* without userId or tokens, a delegated route without userId
UnidentifiedRouterRequest ==
    /\ Answered
    /\ \/ dreq.in.router = "email" /\ (dreq.in.userId = -1 \/ ~dreq.in.tokensGiven)
       \/ dreq.in.router = "delegated" /\ dreq.in.userId = -1

C15_WitnessSession == AnonymousMailboxRequest /\ resp.route = "/api/emails" /\ resp.status = 302

C15_WitnessDelegated ==
    /\ Answered /\ dreq.in.router = "delegated" /\ dreq.in.userId = -1
    /\ validateEmailAccess(dreq.in.targetEmail) /\ dreq.status = 400

C15_WitnessUnknownUser ==
    /\ Answered /\ dreq.in.router = "delegated" /\ dreq.in.userId # -1
    /\ file.kind = "json" /\ dreq.in.userId \notin StoredIds
    /\ dreq.status = 404

(***************************************************************************)
(* Claims on the OAuth callback, logout and the gate.                      *)
(***************************************************************************)
\* C9: the session of a successful callback is authenticated, the session
\* of a logout is not, and a mailbox route requested in a session that is
\* not authenticated reads no access token and makes no remote call.
C9_SessionGate ==
    \A s \in Sessions :
        resp.session = s =>
            /\ (resp.route = CallbackRoute /\ resp.input = "ok") => isAuthenticated(sessUser[s])
            /\ resp.route = "/logout" => ~isAuthenticated(sessUser[s])
            /\ (resp.route \in AllMailboxRoutes /\ ~isAuthenticated(sessUser[s]))
                  => (resp.tokenRead = "" /\ ~resp.remote)

\* a mailbox route was requested in an anonymous session while another session is signed in
C9_Witness ==
    /\ resp.route \in AllMailboxRoutes
    /\ ~isAuthenticated(sessUser[resp.session])
    /\ resp.kind = "redirect"
    /\ \E s \in Sessions : s # resp.session /\ isAuthenticated(sessUser[s])

\* the step is a callback of session s that did not succeed
FailedSessionCallback(s) ==
    /\ resp' # resp
    /\ resp'.session = s
    /\ resp'.route = CallbackRoute
    /\ resp'.input \in CallbackFailures

\* the step ends callback p of the router with an error
FailedRouterCallback(p) ==
    /\ cb[p].pc # "done"
    /\ cb'[p].pc = "done"
    /\ cb'[p].status # 200

C10_WitnessRouter ==
    \E p, q \in Procs :
        /\ cb[p].pc = "done" /\ cb[p].status = 400
        /\ cb[q].pc = "done" /\ cb[q].status = 500 /\ cb[q].userId = 0

=============================================================================
